---- MODULE Spec2Model ----
(***************************************************************************)
(* Model of the rhythmlist audio engine.                                   *)
(*                                                                         *)
(* Part 1: the playback scheduler, AudioPlaybackProvider                   *)
(* (src/src/workers/waveformWorker.ts lines 63-362).  React state and the *)
(* useRef cells are the variables.  Every await of playRecording is a      *)
(* program point of a call (calls[i].pc); the code between two awaits is   *)
(* one atomic action, as on the browser's single thread.                   *)
(*                                                                         *)
(* Time is counted in units of 50 ms.  An AudioContext's currentTime       *)
(* starts at 0 when the context is created and advances while it is not    *)
(* closed.  requestAnimationFrame callbacks run once per frame; frames are *)
(* one or two units apart (FrameSteps).                                    *)
(*                                                                         *)
(* AudioContext.close() follows the Web Audio specification: the first     *)
(* call marks the context as closing and the state attribute becomes       *)
(* "closed" when the returned promise resolves; a call on a context that   *)
(* is already closing rejects with InvalidStateError.                      *)
(***************************************************************************)
EXTENDS Integers, Sequences, FiniteSets, TLC

\* ---------------------------------------------------------------- bounds
MaxCalls == 3          \* play calls made in one behaviour
MaxTime  == 4          \* largest currentTime of an open AudioContext
MaxNow   == 3          \* largest value of the wall clock, Date.now()

\* ------------------------------------------------------- program constants
HISTORY_LIMIT == 1000  \* slice(0, 1000)
\* 7 * 24 * 60 * 60 * 1000 ms; the wall clock is counted in units of 3.5 days
SEVEN_DAYS == 2

\* ------------------------------------------------------------ input space
\* The recordings the callers pass to playRecording: recording.id,
\* recording.audioBlob and recording.loopPoints.  A has stored loop points,
\* B has none, C's bytes do not decode.
RecordingIds == {"A", "B", "C"}
NoRecording == "null"
NoLoopPoints == [start |-> -1, end |-> -1]
LoopPointsOf(id) == IF id = "A" THEN [start |-> 1, end |-> 3] ELSE NoLoopPoints
ValidBytes(id) == id # "C"
Undefined == -1
\* audioBuffer.duration of the buffer decoded from a recording's bytes
BufferDuration(id) == IF id = "A" THEN 4 ELSE 3
\* The time from one rendering frame to the next: one unit, or two when the
\* tick source is throttled or the thread was busy.
FrameSteps == {1, 2}

Calls == 1..MaxCalls

VARIABLES
  playingRecordingId, isLooping, currentTime, duration, playHistory,
  recentlyPlayedRecordings,
  audioContextRef, audioBufferRef, sourceNodeRef, gainNodeRef,
  startTimeRef, pauseTimeRef, animationFrameRef, loopPointsRef, isLoopingRef,
  liveSources, rafPending, rafDue,
  ctxState, ctxTime, calls, mounted, now

schedVars == <<playingRecordingId, isLooping, currentTime, duration, playHistory,
  recentlyPlayedRecordings,
  audioContextRef, audioBufferRef, sourceNodeRef, gainNodeRef,
  startTimeRef, pauseTimeRef, animationFrameRef, loopPointsRef, isLoopingRef,
  liveSources, rafPending, rafDue>>

\* The waveform reducer worker: the request it received, whether its handler
\* has run, and the responses it posted.
VARIABLES wRequest, wHandled, wPosted

reducerVars == <<wRequest, wHandled, wPosted>>

\* The useWaveform hook: its React state, its worker reference, the effect
\* runs made so far with the position of each one's generateWaveform call,
\* the workers created, and the recordings' stored envelopes.
VARIABLES hookWaveformData, hookIsLoading, hookError, workerRef,
          runs, workers, store, hookMounted

hookVars == <<hookWaveformData, hookIsLoading, hookError, workerRef,
              runs, workers, store, hookMounted>>

\* The loop editor: its props duration and loopPoints (the parent's state,
\* set through onLoopPointsChange), its state, and its start and end input
\* fields, each pair of fields held as the time it spells.
VARIABLES editorDuration, editorLoopPoints, tempLoopPoints, dragging,
          startInput, endInput

\* The editor's parents: the player's hasUnsavedChanges, the loopPoints of
\* the recording as stored and as held in the detail page's state, and the
\* save in progress with the points it was given.
VARIABLES hasUnsavedChanges, storedLoopPoints, recordingLoopPoints, savePc, savePoints

saveVars == <<storedLoopPoints, recordingLoopPoints, savePc, savePoints>>

editorVars == <<editorDuration, editorLoopPoints, tempLoopPoints, dragging,
                startInput, endInput, hasUnsavedChanges, saveVars>>

\* The database tables and a call of importAllData: the file it was given,
\* its position and the result it returned.
VARIABLES dbTags, dbRhythms, dbRecordings, importFile, importPc, importResult

importVars == <<dbTags, dbRhythms, dbRecordings, importFile, importPc, importResult>>

\* The calls of createRecording, deleteRecording and deleteRhythm made so
\* far, each with its position and what it has read from the tables.
VARIABLES storeCalls

\* the state outside the playback scheduler
auxVars == <<reducerVars, hookVars, editorVars, importVars, storeCalls>>

vars == <<schedVars, ctxState, ctxTime, calls, mounted, now, auxVars>>

\* The scheduler's cells as one record, so that the helpers the handlers
\* call (stopPlayback, startPlayback, updatePlayback) compose as functions.
Cur ==
  [playingRecordingId |-> playingRecordingId, isLooping |-> isLooping,
   currentTime |-> currentTime, duration |-> duration, playHistory |-> playHistory,
   recentlyPlayedRecordings |-> recentlyPlayedRecordings,
   audioContextRef |-> audioContextRef, audioBufferRef |-> audioBufferRef,
   sourceNodeRef |-> sourceNodeRef, gainNodeRef |-> gainNodeRef,
   startTimeRef |-> startTimeRef, pauseTimeRef |-> pauseTimeRef,
   animationFrameRef |-> animationFrameRef, loopPointsRef |-> loopPointsRef,
   isLoopingRef |-> isLoopingRef,
   liveSources |-> liveSources, rafPending |-> rafPending, rafDue |-> rafDue]

Install(s) ==
  /\ playingRecordingId' = s.playingRecordingId
  /\ isLooping' = s.isLooping
  /\ currentTime' = s.currentTime
  /\ duration' = s.duration
  /\ playHistory' = s.playHistory
  /\ recentlyPlayedRecordings' = s.recentlyPlayedRecordings
  /\ audioContextRef' = s.audioContextRef
  /\ audioBufferRef' = s.audioBufferRef
  /\ sourceNodeRef' = s.sourceNodeRef
  /\ gainNodeRef' = s.gainNodeRef
  /\ startTimeRef' = s.startTimeRef
  /\ pauseTimeRef' = s.pauseTimeRef
  /\ animationFrameRef' = s.animationFrameRef
  /\ loopPointsRef' = s.loopPointsRef
  /\ isLoopingRef' = s.isLoopingRef
  /\ liveSources' = s.liveSources
  /\ rafPending' = s.rafPending
  /\ rafDue' = s.rafDue

\* A call of playRecording: its program point, its arguments, the context
\* whose close() it awaits, and what it found when it was made: another call
\* still in flight ("inflight"), a session of the same recording and mode
\* ("same"), another session ("other") or none ("idle").  The field stopped
\* is no state of the program: it records, for the properties, that
\* stopPlayback() was called while the call's decode was pending.
UnusedCall == [pc |-> "unused", recordingId |-> NoRecording, loop |-> FALSE,
               awaits |-> 0, found |-> "none", stopped |-> FALSE]
Returned(c, pc) == [c EXCEPT !.pc = pc, !.awaits = 0, !.stopped = FALSE]
InFlight(i) == calls[i].pc \in {"toggle_close", "switch_close", "read", "decode"}
NoCallInFlight == \A i \in Calls : ~InFlight(i)

NoRequest == [channelData |-> <<>>, targetPoints |-> 0]

\* no worker has been created
ReducerIdle == wRequest = NoRequest /\ wHandled = FALSE /\ wPosted = <<>>

InitScheduler ==
  /\ playingRecordingId = NoRecording
  /\ isLooping = FALSE
  /\ currentTime = 0
  /\ duration = 0
  /\ playHistory = <<>>
  /\ recentlyPlayedRecordings = <<>>
  /\ audioContextRef = 0
  /\ audioBufferRef = 0
  /\ sourceNodeRef = 0
  /\ gainNodeRef = 0
  /\ startTimeRef = 0
  /\ pauseTimeRef = 0
  /\ animationFrameRef = 0
  /\ loopPointsRef = NoLoopPoints
  /\ isLoopingRef = FALSE
  /\ liveSources = {}
  /\ rafPending = {}
  /\ rafDue = {}
  /\ ctxState = [c \in Calls |-> "none"]
  /\ ctxTime = [c \in Calls |-> 0]
  /\ calls = [i \in Calls |-> UnusedCall]
  /\ mounted = TRUE
  /\ now = 0

MaxRuns == 2           \* effect runs of useWaveform in one behaviour
Runs == 1..MaxRuns
NoEnvelope == <<>>
NoError == "null"
UnusedRun == [pc |-> "unused", recordingId |-> NoRecording, targetPoints |-> 0,
              data |-> NoEnvelope, cancelled |-> FALSE]

\* the hook as first rendered, with no recording loaded and nothing stored
InitHook ==
  /\ hookWaveformData = NoEnvelope
  /\ hookIsLoading = FALSE
  /\ hookError = NoError
  /\ workerRef = 0
  /\ runs = [c \in Runs |-> UnusedRun]
  /\ workers = [c \in Runs |-> "none"]
  /\ store = [id \in RecordingIds |-> NoEnvelope]
  /\ hookMounted = TRUE

\* no loop editor is rendered
EditorIdle ==
  /\ editorDuration = 0
  /\ editorLoopPoints = NoLoopPoints
  /\ tempLoopPoints = NoLoopPoints
  /\ dragging = "null"
  /\ startInput = 0
  /\ endInput = 0
  /\ hasUnsavedChanges = FALSE
  /\ storedLoopPoints = NoLoopPoints
  /\ recordingLoopPoints = NoLoopPoints
  /\ savePc = "idle"
  /\ savePoints = NoLoopPoints

NoFile == [version |-> FALSE, tags |-> <<>>, rhythms |-> <<>>, recordings |-> <<>>]

\* the database is empty and importAllData has not been called
ImportIdle ==
  /\ dbTags = {} /\ dbRhythms = {} /\ dbRecordings = {}
  /\ storeCalls = <<>>
  /\ importFile = NoFile
  /\ importPc = "idle"
  /\ importResult = "none"

Init == InitScheduler /\ ReducerIdle /\ InitHook /\ EditorIdle /\ ImportIdle

\* --------------------------------------------------------- browser objects
\* AudioContext.state as script sees it: "closed" only once close() resolved.
StateAttr(c) == IF ctxState[c] = "closed" THEN "closed" ELSE "running"

\* audioContext.currentTime is read only of the context audioContextRef holds
\* (startPlayback, updatePlayback), and a context that left audioContextRef
\* never returns to it: only that context's clock is tracked.
Tracked(c) == c = audioContextRef /\ ctxState[c] \in {"running", "closing"}

\* Handles and nodes are fresh objects; an identifier is reused only when no
\* reference to its previous holder is left.
FreshHandle(s) == CHOOSE h \in 1..(Cardinality(s.rafPending) + 1) : h \notin s.rafPending
FreshNode(s) ==
  CHOOSE n \in 1..(Cardinality(s.liveSources) + 1) :
    \A x \in s.liveSources : x.node # n

requestAnimationFrame(s) ==
  LET h == FreshHandle(s)
  IN [s EXCEPT !.rafPending = @ \cup {h}, !.animationFrameRef = h]

\* React drops state updates of an unmounted component.
SetState(s, t) == IF mounted THEN t ELSE s

\* ------------------------------------------------------------ stopPlayback
\* stopPlayback without sourceNodeRef.current.stop()
stopPlaybackKeepsSource(s) ==
  IF s.animationFrameRef # 0
  THEN [s EXCEPT !.rafPending = @ \ {s.animationFrameRef},
                 !.rafDue = @ \ {s.animationFrameRef},
                 !.animationFrameRef = 0]
  ELSE s

stopPlayback(s) ==
  LET s1 == IF s.sourceNodeRef # 0
            THEN [s EXCEPT !.liveSources = {x \in @ : x.node # s.sourceNodeRef},
                           !.sourceNodeRef = 0]
            ELSE s
  IN IF s1.animationFrameRef # 0
     THEN [s1 EXCEPT !.rafPending = @ \ {s1.animationFrameRef},
                     !.rafDue = @ \ {s1.animationFrameRef},
                     !.animationFrameRef = 0]
     ELSE s1

\* ----------------------------------------------------------- startPlayback
\* connect() that accepts a node of any context
ConnectNeverThrows(gainNode, audioContext) == FALSE

\* crossfadeGain.connect(gainNode): a node of another context than the
\* one that created crossfadeGain is refused with InvalidAccessError
ConnectThrows(gainNode, audioContext) == gainNode # audioContext

\* a clock origin that is never moved
ClockOriginZero(audioContext) == 0

\* startTimeRef.current = audioContext.currentTime
ClockOrigin(audioContext) == ctxTime[audioContext]

\* The source created on audioContext for audioBuffer and the arguments of
\* its start(0, offset, playDuration); gain is the value crossfadeGain is set
\* to at the start.
SourceAt(s, audioContext, audioBuffer, startFrom, gain) ==
  LET useLoop == s.isLoopingRef /\ s.loopPointsRef # NoLoopPoints
      offset == IF useLoop
                THEN (IF startFrom >= s.loopPointsRef.start
                      THEN startFrom ELSE s.loopPointsRef.start)
                ELSE startFrom
      playDuration == IF useLoop THEN s.loopPointsRef.end - offset ELSE Undefined
  IN [node |-> FreshNode(s), ctx |-> audioContext, buffer |-> audioBuffer,
      offset |-> offset, playDuration |-> playDuration, gain |-> gain]

\* a fade-in that also moves the start by the length of the fade
NewSourceFadeDelayed(s, audioContext, audioBuffer, startFrom, fadeIn) ==
  SourceAt(s, audioContext, audioBuffer,
           IF fadeIn THEN startFrom + 1 ELSE startFrom, IF fadeIn THEN 0 ELSE 1)

\* fadeIn decides the gain only: 0 ramping to 1, or 1 at once
NewSource(s, audioContext, audioBuffer, startFrom, fadeIn) ==
  SourceAt(s, audioContext, audioBuffer, startFrom, IF fadeIn THEN 0 ELSE 1)

\* a start that leaves the previous source playing
StopPreviousSkipped(s) == s

\* the stopPlayback() a start begins with
StopPrevious(s) == stopPlayback(s)

\* Result: the cells after the call and whether the call threw.
startPlayback(s, startFrom, fadeIn) ==
  LET audioContext == s.audioContextRef
      audioBuffer == s.audioBufferRef
      gainNode == s.gainNodeRef
  IN IF audioContext = 0 \/ audioBuffer = 0 \/ gainNode = 0
     THEN [st |-> s, threw |-> FALSE]
     ELSE IF StateAttr(audioContext) = "closed"
     THEN [st |-> s, threw |-> FALSE]
     ELSE
       LET s1 == StopPrevious(s)
           useLoop == s1.isLoopingRef /\ s1.loopPointsRef # NoLoopPoints
           source == NewSource(s1, audioContext, audioBuffer, startFrom, fadeIn)
           offset == source.offset
           playDuration == source.playDuration
       IN IF ConnectThrows(gainNode, audioContext)
          THEN [st |-> s1, threw |-> TRUE]
          ELSE IF offset < 0 \/ (useLoop /\ playDuration < 0)
          THEN \* source.start(): RangeError
               [st |-> s1, threw |-> TRUE]
          ELSE [st |-> [s1 EXCEPT !.liveSources = @ \cup {source},
                                  !.sourceNodeRef = source.node,
                                  !.startTimeRef = ClockOrigin(audioContext),
                                  !.pauseTimeRef = offset],
                threw |-> FALSE]

\* ---------------------------------------------------------- updatePlayback
\* an end test that every position passes
ReachedEndAtOnce(newTime, audioBuffer) == TRUE

\* newTime >= audioBuffer.duration
ReachedEnd(newTime, audioBuffer) ==
  newTime >= BufferDuration(calls[audioBuffer].recordingId)

\* the loop restarted from the wrong bound
RestartFromEnd(loopPoints) == loopPoints.end

\* the startFrom argument of the restart: loopPointsRef.current.start
RestartFrom(loopPoints) == loopPoints.start

\* the device clock read as if the source had started at time 0
ElapsedSinceZero(s, audioContext) == ctxTime[audioContext]

\* const elapsed = audioContext.currentTime - startTimeRef.current
Elapsed(s, audioContext) == ctxTime[audioContext] - s.startTimeRef

updatePlayback(s) ==
  LET audioContext == s.audioContextRef
      audioBuffer == s.audioBufferRef
  IN IF audioContext = 0 \/ audioBuffer = 0
     THEN s
     ELSE
       LET elapsed == Elapsed(s, audioContext)
           newTime == s.pauseTimeRef + elapsed
           s1 == SetState(s, [s EXCEPT !.currentTime = newTime])
       IN IF s1.isLoopingRef /\ s1.loopPointsRef # NoLoopPoints
          THEN IF newTime >= s1.loopPointsRef.end
               THEN requestAnimationFrame(
                      startPlayback(stopPlayback(s1), RestartFrom(s1.loopPointsRef), FALSE).st)
               ELSE requestAnimationFrame(s1)
          ELSE IF ~s1.isLoopingRef /\ ReachedEnd(newTime, audioBuffer)
          THEN LET s2 == stopPlayback(s1)
                   s3 == SetState(s2, [s2 EXCEPT !.playingRecordingId = NoRecording,
                                                 !.isLooping = FALSE,
                                                 !.currentTime = 0])
               IN [s3 EXCEPT !.isLoopingRef = FALSE]
          ELSE requestAnimationFrame(s1)

\* ------------------------------------------------------------ playRecording
Take(seq, n) == SubSeq(seq, 1, IF Len(seq) < n THEN Len(seq) ELSE n)

\* the updater without the filter of the recording's old entries
AddHistoryKeepsOld(prev, recordingId) ==
  Take(<<[recordingId |-> recordingId, timestamp |-> now]>> \o prev, HISTORY_LIMIT)

\* an updater that puts the new entry last
AddHistoryAtEnd(prev, recordingId, limit) ==
  LET filtered == SelectSeq(prev, LAMBDA e : e.recordingId # recordingId)
      newEntry == [recordingId |-> recordingId, timestamp |-> now]
  IN Take(filtered \o <<newEntry>>, limit)

\* [newEntry, ...filtered].slice(0, limit)
AddHistoryUpTo(prev, recordingId, limit) ==
  LET filtered == SelectSeq(prev, LAMBDA e : e.recordingId # recordingId)
      newEntry == [recordingId |-> recordingId, timestamp |-> now]
  IN Take(<<newEntry>> \o filtered, limit)

\* the updater passed to setPlayHistory
AddHistory(prev, recordingId) == AddHistoryUpTo(prev, recordingId, HISTORY_LIMIT)

\* Array.from(new Set(ids)): each id once, in order of first occurrence
RECURSIVE Unique(_)
Unique(ids) ==
  IF ids = <<>> THEN <<>>
  ELSE LET front == Unique(SubSeq(ids, 1, Len(ids) - 1))
           last == ids[Len(ids)]
       IN IF \E k \in DOMAIN front : front[k] = last THEN front
          ELSE Append(front, last)

\* the useMemo body of recentlyPlayedRecordings; dateNow is Date.now() at the
\* render in which the memo is computed
RecentlyPlayed(history, dateNow) ==
  LET sevenDaysAgo == dateNow - SEVEN_DAYS
      recentEntries == SelectSeq(history, LAMBDA entry : entry.timestamp > sevenDaysAgo)
  IN Unique([k \in DOMAIN recentEntries |-> recentEntries[k].recordingId])

\* setPlayHistory(updater) and the render that follows it: the memo depends
\* on playHistory alone and is recomputed when playHistory has changed
SetPlayHistory(s, recordingId) ==
  LET updated == AddHistory(s.playHistory, recordingId)
  IN [s EXCEPT !.playHistory = updated,
               !.recentlyPlayedRecordings = RecentlyPlayed(updated, now)]

\* the toggle-stop branch without setPlayingRecordingId(null)
ToggleFinishKeepsPlaying(s) ==
  LET s1 == [s EXCEPT !.audioContextRef = 0, !.audioBufferRef = 0, !.gainNodeRef = 0]
      s2 == SetState(s1, [s1 EXCEPT !.isLooping = FALSE, !.currentTime = 0, !.duration = 0])
  IN [s2 EXCEPT !.isLoopingRef = FALSE]

\* the toggle-stop branch after its await
ToggleFinish(s) ==
  LET s1 == [s EXCEPT !.audioContextRef = 0, !.audioBufferRef = 0, !.gainNodeRef = 0]
      s2 == SetState(s1, [s1 EXCEPT !.playingRecordingId = NoRecording,
                                    !.isLooping = FALSE,
                                    !.currentTime = 0,
                                    !.duration = 0])
  IN [s2 EXCEPT !.isLoopingRef = FALSE]

\* the catch block
CatchPlayError(s) ==
  LET s1 == [s EXCEPT !.isLoopingRef = FALSE]
  IN SetState(s1, [s1 EXCEPT !.playingRecordingId = NoRecording, !.isLooping = FALSE])

\* the start offset taken from the loop points whatever the mode
StartFromLoopPoints(loop, loopPoints) ==
  IF loopPoints # NoLoopPoints THEN loopPoints.start ELSE 0

\* const startFrom = loop && loopPoints ? loopPoints.start : 0
StartFrom(loop, loopPoints) ==
  IF loop /\ loopPoints # NoLoopPoints THEN loopPoints.start ELSE 0

\* the try block from the decoded buffer to the first tick request
StartSession(s, i) ==
  LET c == calls[i]
      loopPoints == LoopPointsOf(c.recordingId)
      s1 == [s EXCEPT !.audioBufferRef = i, !.gainNodeRef = i,
                      !.loopPointsRef = loopPoints, !.isLoopingRef = c.loop]
      s2 == SetState(s1, SetPlayHistory(
                           [s1 EXCEPT !.playingRecordingId = c.recordingId,
                                      !.isLooping = c.loop,
                                      !.duration = BufferDuration(c.recordingId),
                                      !.currentTime = 0],
                           c.recordingId))
      startFrom == StartFrom(c.loop, loopPoints)
      r == startPlayback(s2, startFrom, FALSE)
  IN IF r.threw
     THEN [st |-> CatchPlayError(r.st), pc |-> "failed"]
     ELSE [st |-> requestAnimationFrame(r.st), pc |-> "done"]

\* new AudioContext() of call i, up to the await of audioBlob.arrayBuffer()
OpenContext(s, i) == [s EXCEPT !.audioContextRef = i]

\* a play call that never closes the context it finds
NeedCloseNever(ac) == FALSE

\* audioContextRef.current && audioContextRef.current.state !== 'closed'
NeedClose(ac) == ac # 0 /\ StateAttr(ac) # "closed"

\* A call of playRecording, up to its first await or its return.
Play(i, recordingId, loop) ==
  /\ mounted
  /\ calls[i].pc = "unused"
  /\ \A j \in Calls : j < i => calls[j].pc # "unused"
  /\ LET toggle == playingRecordingId = recordingId /\ isLooping = loop
         s1 == stopPlayback(Cur)
         ac == s1.audioContextRef
         needClose == NeedClose(ac)
         me == [pc |-> "unused", recordingId |-> recordingId, loop |-> loop, awaits |-> 0,
                stopped |-> FALSE,
                found |-> IF ~NoCallInFlight THEN "inflight"
                          ELSE IF toggle THEN "same"
                          ELSE IF playingRecordingId # NoRecording THEN "other"
                          ELSE "idle"]
     IN IF needClose
        THEN IF ctxState[ac] = "running"
             THEN /\ Install(s1)
                  /\ ctxState' = [ctxState EXCEPT ![ac] = "closing"]
                  /\ ctxTime' = ctxTime
                  /\ calls' = [calls EXCEPT ![i] =
                       [me EXCEPT !.pc = IF toggle THEN "toggle_close" ELSE "switch_close",
                                  !.awaits = ac]]
             ELSE \* close() on a closing context rejects; the await is outside try
                  /\ Install(s1)
                  /\ UNCHANGED <<ctxState, ctxTime>>
                  /\ calls' = [calls EXCEPT ![i] = Returned(me, "threw")]
        ELSE IF toggle
             THEN /\ Install(ToggleFinish(s1))
                  /\ UNCHANGED <<ctxState, ctxTime>>
                  /\ calls' = [calls EXCEPT ![i] = Returned(me, "done")]
             ELSE /\ Install(OpenContext(s1, i))
                  /\ ctxState' = [ctxState EXCEPT ![i] = "running"]
                  /\ ctxTime' = [ctxTime EXCEPT ![i] = 0]
                  /\ calls' = [calls EXCEPT ![i] = [me EXCEPT !.pc = "read"]]
  /\ UNCHANGED <<mounted, now, auxVars>>

\* close() of context c resolves: its state becomes "closed" and the call
\* awaiting it runs on to its next await or to its return.
CloseDone(c) ==
  /\ ctxState[c] = "closing"
  /\ LET waiting == {i \in Calls : calls[i].pc \in {"toggle_close", "switch_close"}
                                   /\ calls[i].awaits = c}
     IN IF waiting = {}
        THEN /\ ctxState' = [ctxState EXCEPT ![c] = "closed"]
             /\ UNCHANGED <<schedVars, ctxTime, calls>>
        ELSE LET i == CHOOSE j \in waiting : TRUE
             IN IF calls[i].pc = "toggle_close"
                THEN /\ Install(ToggleFinish(Cur))
                     /\ ctxState' = [ctxState EXCEPT ![c] = "closed"]
                     /\ ctxTime' = ctxTime
                     /\ calls' = [calls EXCEPT ![i] = Returned(@, "done")]
                ELSE /\ Install(OpenContext(Cur, i))
                     /\ ctxState' = [ctxState EXCEPT ![c] = "closed", ![i] = "running"]
                     /\ ctxTime' = [ctxTime EXCEPT ![i] = 0]
                     /\ calls' = [calls EXCEPT ![i].pc = "read", ![i].awaits = 0]
  /\ UNCHANGED <<mounted, now, auxVars>>

\* audioBlob.arrayBuffer() resolves; decodeAudioData is called
ReadDone(i) ==
  /\ calls[i].pc = "read"
  /\ calls' = [calls EXCEPT ![i].pc = "decode"]
  /\ UNCHANGED <<schedVars, ctxState, ctxTime, mounted, now, auxVars>>

\* decodeAudioData settles: the rest of the try block, or the catch block
DecodeDone(i) ==
  /\ calls[i].pc = "decode"
  /\ IF ValidBytes(calls[i].recordingId)
     THEN LET r == StartSession(Cur, i)
          IN /\ Install(r.st)
             /\ calls' = [calls EXCEPT ![i] = Returned(@, r.pc)]
     ELSE /\ Install(CatchPlayError(Cur))
          /\ calls' = [calls EXCEPT ![i] = Returned(@, "failed")]
  /\ UNCHANGED <<ctxState, ctxTime, mounted, now, auxVars>>

\* ------------------------------------------------------------- tick source
\* A rendering frame begins: the device clocks have advanced and every
\* callback requested before the frame is due in it.
Frame(d) ==
  /\ rafDue = {}
  /\ \A c \in Calls : Tracked(c) => ctxTime[c] + d <= MaxTime
  /\ ctxTime' = [c \in Calls |-> IF Tracked(c) THEN ctxTime[c] + d ELSE 0]
  /\ rafDue' = rafPending
  /\ UNCHANGED <<playingRecordingId, isLooping, currentTime, duration, playHistory,
                 recentlyPlayedRecordings, audioContextRef, audioBufferRef,
                 sourceNodeRef, gainNodeRef,
                 startTimeRef, pauseTimeRef, animationFrameRef, loopPointsRef,
                 isLoopingRef, liveSources, rafPending, ctxState, calls, mounted, now,
                 auxVars>>

\* The frame runs the callback with handle h.
Tick(h) ==
  /\ h \in rafDue
  /\ Install(updatePlayback([Cur EXCEPT !.rafPending = @ \ {h}, !.rafDue = @ \ {h}]))
  /\ UNCHANGED <<ctxState, ctxTime, calls, mounted, now, auxVars>>

\* ---------------------------------------------------------------- isPlaying
CheckLoopValues == {"undefined", "true", "false"}

\* isPlaying that never looks at checkLoop
isPlayingIgnoresLoop(recordingId, checkLoop) == playingRecordingId = recordingId

isPlaying(recordingId, checkLoop) ==
  IF checkLoop # "undefined"
  THEN playingRecordingId = recordingId /\ isLooping = (checkLoop = "true")
  ELSE playingRecordingId = recordingId

\* ----------------------------------------------------- stop() and unmount
Stop ==
  /\ mounted
  /\ Install(stopPlayback(Cur))
  /\ UNCHANGED <<ctxState, ctxTime, calls, mounted, now, auxVars>>

\* stop() as above, with the calls whose decode is pending marked
StopObserved ==
  /\ mounted
  /\ Install(stopPlayback(Cur))
  /\ calls' = [i \in Calls |-> IF calls[i].pc = "decode"
                                THEN [calls[i] EXCEPT !.stopped = TRUE]
                                ELSE calls[i]]
  /\ UNCHANGED <<ctxState, ctxTime, mounted, now, auxVars>>

\* a cleanup that leaves the references in place
UnmountCleanupKeepsRefs(s) == stopPlayback(s)

\* the cleanup of the provider's unmount effect
UnmountCleanup(s) ==
  [stopPlayback(s) EXCEPT !.audioContextRef = 0, !.audioBufferRef = 0, !.gainNodeRef = 0]

Unmount ==
  /\ mounted
  /\ mounted' = FALSE
  /\ Install(UnmountCleanup(Cur))
  /\ ctxState' = IF audioContextRef # 0 /\ ctxState[audioContextRef] = "running"
                 THEN [ctxState EXCEPT ![audioContextRef] = "closing"]
                 ELSE ctxState
  /\ UNCHANGED <<ctxTime, calls, now, auxVars>>

\* ------------------------------------------------------------ specification
Next ==
  \/ \E i \in Calls, recordingId \in RecordingIds, loop \in BOOLEAN :
       Play(i, recordingId, loop)
  \/ \E c \in Calls : CloseDone(c)
  \/ \E i \in Calls : ReadDone(i)
  \/ \E i \in Calls : DecodeDone(i)
  \/ \E d \in FrameSteps : Frame(d)
  \/ \E h \in rafDue : Tick(h)
  \/ Stop

Spec == Init /\ [][Next]_vars

\* Callers that make a play call only when the previous one has returned.
PlaySerial(i, recordingId, loop) == NoCallInFlight /\ Play(i, recordingId, loop)

NextSerial ==
  \/ \E i \in Calls, recordingId \in RecordingIds, loop \in BOOLEAN :
       PlaySerial(i, recordingId, loop)
  \/ \E c \in Calls : CloseDone(c)
  \/ \E i \in Calls : ReadDone(i)
  \/ \E i \in Calls : DecodeDone(i)
  \/ \E d \in FrameSteps : Frame(d)
  \/ \E h \in rafDue : Tick(h)
  \/ Stop

SpecSerial == Init /\ [][NextSerial]_vars

\* Serial callers, with the stop() calls made during a decode observed.
NextObserved ==
  \/ \E i \in Calls, recordingId \in RecordingIds, loop \in BOOLEAN :
       PlaySerial(i, recordingId, loop)
  \/ \E c \in Calls : CloseDone(c)
  \/ \E i \in Calls : ReadDone(i)
  \/ \E i \in Calls : DecodeDone(i)
  \/ \E d \in FrameSteps : Frame(d)
  \/ \E h \in rafDue : Tick(h)
  \/ StopObserved

SpecObserved == Init /\ [][NextObserved]_vars

\* The wall clock, Date.now(), advances.
ClockAdvance ==
  /\ now < MaxNow
  /\ now' = now + 1
  /\ UNCHANGED <<schedVars, ctxState, ctxTime, calls, mounted, auxVars>>

\* Serial callers over days: the wall clock advances between the steps.
NextHistory ==
  \/ \E i \in Calls, recordingId \in RecordingIds, loop \in BOOLEAN :
       PlaySerial(i, recordingId, loop)
  \/ \E c \in Calls : CloseDone(c)
  \/ \E i \in Calls : ReadDone(i)
  \/ \E i \in Calls : DecodeDone(i)
  \/ \E d \in FrameSteps : Frame(d)
  \/ \E h \in rafDue : Tick(h)
  \/ Stop
  \/ ClockAdvance

SpecHistory == Init /\ [][NextHistory]_vars

\* The provider may also be unmounted at any moment.
NextUnmount == Next \/ Unmount

SpecUnmount == Init /\ [][NextUnmount]_vars

\* Serial callers of a provider that may be unmounted at any moment.
NextSerialUnmount ==
  \/ \E i \in Calls, recordingId \in RecordingIds, loop \in BOOLEAN :
       PlaySerial(i, recordingId, loop)
  \/ \E c \in Calls : CloseDone(c)
  \/ \E i \in Calls : ReadDone(i)
  \/ \E i \in Calls : DecodeDone(i)
  \/ \E d \in FrameSteps : Frame(d)
  \/ \E h \in rafDue : Tick(h)
  \/ Stop
  \/ Unmount

SpecSerialUnmount == Init /\ [][NextSerialUnmount]_vars

\* ======================================================================
\* Properties of the playback scheduler
\* ======================================================================
\* the step in which call i's session becomes the active one
Commit(i) == calls[i].pc = "decode" /\ calls'[i].pc = "done"
\* every audio context is closed (or was never opened)
Released == \A c \in Calls : ctxState[c] \in {"none", "closed"}
\* nothing of a session is left
TornDown ==
  /\ liveSources = {} /\ sourceNodeRef = 0
  /\ rafPending = {}
  /\ audioContextRef = 0 /\ audioBufferRef = 0 /\ gainNodeRef = 0
  /\ Released
NobodyPlaying == \A id \in RecordingIds : ~isPlaying(id, "undefined")
\* the position updatePlayback computes in the current state
NewTime == pauseTimeRef + (ctxTime[audioContextRef] - startTimeRef)
TickRuns(h) == h \in rafDue /\ Tick(h)

\* C1 (Exclusivity on switch): when the session of a play call becomes
\* active, every started source plays that call's buffer on that call's
\* context (the previous source is stopped), the only pending tick is the new
\* session's (the previous tick is cancelled) and every other audio context
\* is closed; and in no state are two different recordings reported playing.
C1_ExclusiveSwitch ==
  /\ [](\A a, b \in RecordingIds :
          a # b => ~(isPlaying(a, "undefined") /\ isPlaying(b, "undefined")))
  /\ [][\A i \in Calls : Commit(i) =>
          /\ \A x \in liveSources' : x.buffer = i /\ x.ctx = i
          /\ rafPending' = {animationFrameRef'}
          /\ \A c \in Calls \ {i} : ctxState'[c] \in {"none", "closed"}]_vars

\* B is playing after a switch from A's established session: A's context is
\* closed and the one started source is B's.
C1_Witness ==
  /\ calls[1].recordingId = "A" /\ calls[1].found = "idle" /\ calls[1].pc = "done"
  /\ calls[2].recordingId = "B" /\ calls[2].found = "other" /\ calls[2].pc = "done"
  /\ isPlaying("B", "undefined")
  /\ ctxState[1] = "closed" /\ ctxState[2] = "running"
  /\ \E x \in liveSources : x.buffer = 2 /\ x.ctx = 2

\* C2 (Toggle-stop): a play call made while a session of the same recording
\* and loop flag is active (and no other call is in flight) returns normally
\* without creating a context of its own, and when it returns the source is
\* stopped, no tick is pending, every context is closed, the context, buffer
\* and gain references are null and the recording is not reported playing.
ToggleReturns(i) ==
  /\ calls[i].pc \in {"unused", "toggle_close"}
  /\ calls'[i].pc \in {"done", "threw"}
  /\ calls'[i].found = "same"

C2_ToggleStop ==
  [][\A i \in Calls : ToggleReturns(i) =>
       /\ calls'[i].pc = "done"
       /\ ctxState'[i] = "none"
       /\ TornDown'
       /\ NobodyPlaying'
       /\ ~isLoopingRef']_vars

\* A toggle-stop call of A's session has returned: the session's context,
\* opened by call 1, is closed and nothing is left.
C2_Witness ==
  /\ calls[1].recordingId = "A" /\ calls[1].found = "idle" /\ calls[1].pc = "done"
  /\ calls[2].recordingId = "A" /\ calls[2].found = "same" /\ calls[2].pc = "done"
  /\ calls[3].pc = "unused"
  /\ ctxState[1] = "closed" /\ ctxState[2] = "none"
  /\ TornDown /\ NobodyPlaying

\* C3 (Toggle idempotence): two identical calls play(B, blob, false, null),
\* the second made while the first one's session is active or while the
\* first is still in flight, leave (once both have returned) nothing
\* reported playing and nothing of a session behind.
C3_ToggleIdempotence ==
  ( /\ calls[1].recordingId = "B" /\ ~calls[1].loop /\ calls[1].found = "idle"
    /\ calls[2].recordingId = "B" /\ ~calls[2].loop
    /\ calls[2].found \in {"same", "inflight"}
    /\ ~InFlight(1) /\ ~InFlight(2)
    /\ calls[3].pc = "unused" )
  => (NobodyPlaying /\ TornDown)

\* C4 (Decode failure containment): when the decode of a play call fails, no
\* recording is reported playing and no audio context is left open.
C4_DecodeFailureContained ==
  [][\A i \in Calls :
       (calls[i].pc = "decode" /\ ~ValidBytes(calls[i].recordingId) /\ DecodeDone(i)) =>
         (NobodyPlaying' /\ Released')]_vars

\* C5 (stop): after stopPlayback() no recording is reported playing, no tick
\* is pending, no source is started and no audio context is open.
C5_StopTearsDown ==
  [][Stop => (NobodyPlaying' /\ rafPending' = {} /\ liveSources' = {} /\ Released')]_vars

\* C6 (Normal-mode termination): a tick of a Normal-mode session that
\* computes a position at or past the buffer's duration stops the source,
\* requests no further tick, leaves no recording reported playing and
\* destroys the session: the context and buffer references are null and the
\* audio context is closed.
NormalSession ==
  /\ playingRecordingId # NoRecording /\ ~isLoopingRef
  /\ audioContextRef # 0 /\ audioBufferRef # 0

C6_NormalTermination ==
  [][\A h \in rafDue :
       (/\ TickRuns(h) /\ NormalSession
        /\ NewTime >= BufferDuration(calls[audioBufferRef].recordingId)) =>
         /\ liveSources' = {} /\ sourceNodeRef' = 0
         /\ rafPending' \subseteq rafPending \ {h} /\ animationFrameRef' = 0
         /\ NobodyPlaying' /\ ~isLooping'
         /\ audioContextRef' = 0 /\ audioBufferRef' = 0
         /\ Released']_vars

LoopSession ==
  /\ playingRecordingId # NoRecording
  /\ isLoopingRef /\ loopPointsRef # NoLoopPoints
  /\ audioContextRef # 0 /\ audioBufferRef # 0

\* C7 as stated (Loop seamlessness): in Loop mode with loop points, when the
\* previous tick observed a position >= end (currentTime holds it), the
\* position the next tick tracks is >= start and < end.
C7_LoopSeamless ==
  [][\A h \in rafDue :
       (TickRuns(h) /\ LoopSession /\ currentTime >= loopPointsRef.end) =>
         (currentTime' >= loopPointsRef.start /\ currentTime' < loopPointsRef.end)]_vars

\* C7 as amended: in Loop mode with loop points, when the previous tick
\* observed a position >= end and the next tick runs less than end - start
\* after the restart, the position that tick tracks is >= start and < end.
C7_LoopSeamlessTimely ==
  [][\A h \in rafDue :
       (/\ TickRuns(h) /\ LoopSession /\ currentTime >= loopPointsRef.end
        /\ ctxTime[audioContextRef] - startTimeRef
             < loopPointsRef.end - loopPointsRef.start) =>
         (currentTime' >= loopPointsRef.start /\ currentTime' < loopPointsRef.end)]_vars

\* The tick after a restart of A's loop has run: the source was restarted at
\* the loop start two units after the session began, and one unit later the
\* tracked position is inside the loop.
C7_Witness ==
  /\ calls[1].recordingId = "A" /\ calls[1].loop /\ calls[1].pc = "done"
  /\ calls[2].pc = "unused"
  /\ LoopSession
  /\ pauseTimeRef = loopPointsRef.start
  /\ startTimeRef = ctxTime[1] - 1
  /\ currentTime = loopPointsRef.start + 1
  /\ ctxTime[1] = (loopPointsRef.end - loopPointsRef.start) + 1
  /\ rafDue = {}
  /\ \E x \in liveSources : x.node = sourceNodeRef /\ x.offset = loopPointsRef.start

\* C8 (Fresh start): when the decode of a play call succeeds, the call's
\* session is established: the recording is reported playing in the call's
\* mode, the mode and loop point references hold the call's loop flag and
\* loop points, a source playing the call's buffer is started at
\* loopPoints.start if loop is true and loop points are given and at 0
\* otherwise, and a tick is requested.
C8_FreshStart ==
  [][\A i \in Calls :
       (calls[i].pc = "decode" /\ ValidBytes(calls[i].recordingId) /\ DecodeDone(i)) =>
         LET c == calls[i]
             lp == LoopPointsOf(c.recordingId)
         IN /\ calls'[i].pc = "done"
            /\ isPlaying(c.recordingId, IF c.loop THEN "true" ELSE "false")'
            /\ isLoopingRef' = c.loop
            /\ loopPointsRef' = lp
            /\ \E x \in liveSources' :
                 /\ x.node = sourceNodeRef' /\ x.buffer = i /\ x.ctx = i
                 /\ x.offset = IF c.loop /\ lp # NoLoopPoints THEN lp.start ELSE 0
            /\ pauseTimeRef' = (IF c.loop /\ lp # NoLoopPoints THEN lp.start ELSE 0)
            /\ animationFrameRef' # 0 /\ animationFrameRef' \in rafPending']_vars

\* A, which has loop points, was started in Normal mode: its source plays
\* from offset 0 and the first tick is pending.
C8_Witness ==
  /\ calls[1].recordingId = "A" /\ ~calls[1].loop /\ calls[1].pc = "done"
  /\ calls[2].pc = "unused"
  /\ isPlaying("A", "false")
  /\ loopPointsRef = LoopPointsOf("A") /\ ~isLoopingRef
  /\ currentTime = 0
  /\ \E x \in liveSources : x.node = sourceNodeRef /\ x.buffer = 1 /\ x.offset = 0
  /\ rafPending = {animationFrameRef}

C10_IdleReleased ==
  (NobodyPlaying /\ NoCallInFlight) => Released

\* ======================================================================
\* Part 2: the waveform reducer worker
\* (src/src/workers/waveformWorker.ts lines 1-61)
\* ======================================================================
MaxSamples == 4        \* longest channelData
MaxPoints == 4         \* largest targetPoints
\* The largest number of arguments the engine accepts in one call (beyond it
\* a spread call throws RangeError), scaled to the model.
MaxArguments == 3

\* Sample values, in units of half the full scale.
Samples == {-2, -1, 0, 1, 2}

RECURSIVE Gcd(_, _)
Gcd(a, b) == IF b = 0 THEN a ELSE Gcd(b, a % b)

\* The number a / b as IEEE arithmetic gives it for a, b >= 0: a fraction in
\* lowest terms, Infinity (1/0) or NaN (0/0).
Quotient(a, b) ==
  IF b = 0 THEN [num |-> IF a = 0 THEN 0 ELSE 1, den |-> 0]
  ELSE LET g == Gcd(a, b) IN [num |-> a \div g, den |-> b \div g]

\* A non-negative number is held exactly, as the fraction whose square root
\* it is.
Sqrt(q) == [rad |-> q]
NaN == Sqrt(Quotient(0, 0))
Zero == Sqrt(Quotient(0, 1))
One == Sqrt(Quotient(1, 1))
IsNaN(v) == v.rad.den = 0 /\ v.rad.num = 0
\* v <= w for numbers that are not NaN
Leq(v, w) == v.rad.num * w.rad.den <= w.rad.num * v.rad.den
\* v > 0 (false for NaN)
Positive(v) == ~IsNaN(v) /\ v.rad.num > 0
\* v / w
Divide(v, w) == Sqrt(Quotient(v.rad.num * w.rad.den, v.rad.den * w.rad.num))

Min(a, b) == IF a < b THEN a ELSE b

RECURSIVE SumSquares(_, _, _)
\* the inner loop: sum of channelData[j]^2 for start <= j < end (0-based)
SumSquares(channelData, start, end) ==
  IF start >= end THEN 0
  ELSE channelData[start + 1] * channelData[start + 1]
       + SumSquares(channelData, start + 1, end)

\* a chunk that also takes the sample after its last one
WindowOverlapping(length, targetPoints, i) ==
  LET samplesPerPoint == length \div targetPoints
      start == i * samplesPerPoint
  IN [start |-> start, end |-> Min(start + samplesPerPoint + 1, length)]

\* the chunk of iteration i (0-based): samples start <= j < end
Window(length, targetPoints, i) ==
  LET samplesPerPoint == length \div targetPoints
      start == i * samplesPerPoint
  IN [start |-> start, end |-> Min(start + samplesPerPoint, length)]

\* the RMS loop: waveformData before normalisation
WindowRms(channelData, targetPoints) ==
  [k \in 1..targetPoints |->
     LET start == Window(Len(channelData), targetPoints, k - 1).start
         end == Window(Len(channelData), targetPoints, k - 1).end
     IN Sqrt(Quotient(SumSquares(channelData, start, end), end - start))]

\* Math.max(...waveformData): NaN if any argument is NaN
MathMax(waveformData) ==
  IF \E k \in DOMAIN waveformData : IsNaN(waveformData[k]) THEN NaN
  ELSE CHOOSE m \in {waveformData[k] : k \in DOMAIN waveformData} :
         \A k \in DOMAIN waveformData : Leq(waveformData[k], m)

\* the envelope divided by its first entry
NormalizeByFirst(waveformData) ==
  IF Positive(waveformData[1])
  THEN [k \in DOMAIN waveformData |-> Divide(waveformData[k], waveformData[1])]
  ELSE waveformData

\* normalise to the 0-1 range
Normalize(waveformData) ==
  LET maxAmplitude == MathMax(waveformData)
  IN IF Positive(maxAmplitude)
     THEN [k \in DOMAIN waveformData |-> Divide(waveformData[k], maxAmplitude)]
     ELSE waveformData

Success(waveformData) == [waveformData |-> waveformData, error |-> "none"]
Failure(message) == [waveformData |-> <<>>, error |-> message]

\* a handler that posts the envelope and then, on the throw, the error too
onmessagePostsBoth(data) ==
  LET waveformData == WindowRms(data.channelData, data.targetPoints)
  IN IF Len(waveformData) > MaxArguments
     THEN <<Success(waveformData), Failure("RangeError")>>
     ELSE <<Success(Normalize(waveformData))>>

\* self.onmessage: the messages it posts
onmessage(data) ==
  LET waveformData == WindowRms(data.channelData, data.targetPoints)
  IN IF Len(waveformData) > MaxArguments
     THEN \* Math.max(...waveformData) throws; the catch block posts the error
          <<Failure("RangeError")>>
     ELSE <<Success(Normalize(waveformData))>>

RECURSIVE SeqsUpTo(_, _)
SeqsUpTo(S, n) ==
  IF n = 0 THEN {<<>>}
  ELSE LET shorter == SeqsUpTo(S, n - 1)
       IN shorter \cup {Append(s, x) : s \in shorter, x \in S}

Requests ==
  [channelData : SeqsUpTo(Samples, MaxSamples), targetPoints : 1..MaxPoints]

\* The worker has received one request.
InitReducer ==
  /\ InitScheduler /\ InitHook /\ EditorIdle /\ ImportIdle
  /\ wRequest \in Requests
  /\ wHandled = FALSE
  /\ wPosted = <<>>

\* The worker's message handler runs.
OnMessage ==
  /\ wRequest # NoRequest /\ ~wHandled
  /\ wHandled' = TRUE
  /\ wPosted' = wPosted \o onmessage(wRequest)
  /\ UNCHANGED <<wRequest, schedVars, ctxState, ctxTime, calls, mounted, now, hookVars, editorVars,
                 importVars, storeCalls>>

NextReducer == OnMessage

SpecReducer == InitReducer /\ [][NextReducer]_vars

\* ----------------------------------------------------------------------
\* Properties of the reducer
\* ----------------------------------------------------------------------
\* C11 (Envelope length): for every request with targetPoints = N > 0, what
\* the handler returns holds exactly N values.
C11_EnvelopeLength ==
  wHandled =>
    \A k \in DOMAIN wPosted : Len(wPosted[k].waveformData) = wRequest.targetPoints

\* C12 (Normalization): in a returned envelope, if the maximum window RMS is
\* > 0 the maximum entry is 1 and every entry lies in [0, 1]; if every
\* window's RMS is 0 the envelope is all zeros.
C12_Normalization ==
  (wHandled /\ Len(wPosted) = 1 /\ wPosted[1].error = "none") =>
    LET raw == WindowRms(wRequest.channelData, wRequest.targetPoints)
        envelope == wPosted[1].waveformData
    IN /\ Positive(MathMax(raw)) =>
            /\ \E k \in DOMAIN envelope : envelope[k] = One
            /\ \A k \in DOMAIN envelope :
                 ~IsNaN(envelope[k]) /\ Leq(Zero, envelope[k]) /\ Leq(envelope[k], One)
       /\ (\A k \in DOMAIN raw : raw[k] = Zero) =>
            (\A k \in DOMAIN envelope : envelope[k] = Zero)

\* A two-window envelope whose second window is the louder one: the entries
\* are 1/2 and 1.
C12_Witness ==
  /\ wHandled /\ Len(wPosted) = 1 /\ wPosted[1].error = "none"
  /\ wRequest.channelData = <<1, 2>> /\ wRequest.targetPoints = 2
  /\ wPosted[1].waveformData = <<Sqrt(Quotient(1, 4)), One>>

\* C13 (Empty windows): when channelData is shorter than targetPoints every
\* window is empty and the returned envelope is targetPoints zeros.
C13_EmptyWindows ==
  (/\ wHandled /\ Len(wPosted) = 1 /\ wPosted[1].error = "none"
   /\ Len(wRequest.channelData) < wRequest.targetPoints) =>
    wPosted[1].waveformData = [k \in 1..wRequest.targetPoints |-> Zero]

\* C14 (One response per request): once the handler has run for a request
\* exactly one response is posted, either an envelope of targetPoints entries
\* without an error or an error with an empty envelope.
C14_OneResponse ==
  /\ Len(wPosted) <= 1
  /\ wHandled =>
       /\ Len(wPosted) = 1
       /\ \/ /\ wPosted[1].error = "none"
             /\ Len(wPosted[1].waveformData) = wRequest.targetPoints
          \/ /\ wPosted[1].error # "none"
             /\ wPosted[1].waveformData = <<>>

\* The handler threw in Math.max and the one response is the error.
C14_Witness ==
  /\ wHandled /\ wRequest.targetPoints > MaxArguments
  /\ wPosted = <<Failure("RangeError")>>

\* ======================================================================
\* Part 3: the useWaveform hook (src/src/hooks/useWaveform.ts)
\* ======================================================================
\* The decoded first channel of a recording's audio.
ChannelData(id) == IF id = "A" THEN <<1, 2>> ELSE <<0, 2, 1>>
\* targetPoints as passed to the hook: the default, or one above the engine's
\* argument limit.
TargetPointsChoices == {2, MaxArguments + 1}

\* the state outside the hook
nonHookVars == <<reducerVars, editorVars, importVars, schedVars, ctxState, ctxTime,
                 calls, mounted, now, storeCalls>>

\* the hook's React state
HookState ==
  [waveformData |-> hookWaveformData, isLoading |-> hookIsLoading, error |-> hookError]

\* the state after the setters ran; an unmounted component keeps its state
InstallHook(h) ==
  /\ hookWaveformData' = IF hookMounted THEN h.waveformData ELSE hookWaveformData
  /\ hookIsLoading' = IF hookMounted THEN h.isLoading ELSE hookIsLoading
  /\ hookError' = IF hookMounted THEN h.error ELSE hookError

\* a failure report that leaves isLoading set
ReportFailureKeepsLoading(h, message) == [h EXCEPT !.error = message]

\* setError(message); setIsLoading(false)
ReportFailure(h, message) == [h EXCEPT !.error = message, !.isLoading = FALSE]

\* a cache check that never hits
CacheHitNever(existingWaveformData) == FALSE

\* existingWaveformData && existingWaveformData.length > 0
CacheHit(existingWaveformData) ==
  existingWaveformData # NoEnvelope /\ Len(existingWaveformData) > 0

\* a handler that never caches
ShouldCacheNever(recordingId, data) == FALSE

\* recordingId && data.length > 0
ShouldCache(recordingId, data) == recordingId # NoRecording /\ Len(data) > 0

\* The last effect run, if it returned the cleanup function.
LastRun == IF runs[1].pc = "unused" THEN 0
           ELSE CHOOSE c \in Runs :
                  runs[c].pc # "unused" /\ \A d \in Runs : d > c => runs[d].pc = "unused"
HasCleanup == LastRun # 0 /\ runs[LastRun].pc \notin {"cached", "noblob"}

\* the cleanup function: what it leaves of workerRef and the workers
CleanupWorkerRef == IF HasCleanup THEN 0 ELSE workerRef
CleanupWorkers ==
  IF HasCleanup /\ workerRef # 0
  THEN [workers EXCEPT ![workerRef] = "terminated"] ELSE workers
CleanupRuns ==
  IF HasCleanup THEN [runs EXCEPT ![LastRun].cancelled = TRUE] ELSE runs

\* The dependencies changed (or the hook was mounted): the previous run's
\* cleanup and then the effect, up to generateWaveform's first await.  The
\* caller passes the recording as it has just loaded it from the store.
WaveEffect(c, recordingId, targetPoints) ==
  /\ hookMounted
  /\ runs[c].pc = "unused"
  /\ \A d \in Runs : d < c => runs[d].pc # "unused"
  /\ LET existingWaveformData ==
           IF recordingId = NoRecording THEN NoEnvelope ELSE store[recordingId]
         me == [UnusedRun EXCEPT !.recordingId = recordingId,
                                 !.targetPoints = targetPoints]
     IN IF CacheHit(existingWaveformData)
        THEN /\ InstallHook([HookState EXCEPT !.waveformData = existingWaveformData])
             /\ runs' = [CleanupRuns EXCEPT ![c] = [me EXCEPT !.pc = "cached"]]
        ELSE IF recordingId = NoRecording
        THEN /\ InstallHook(HookState)
             /\ runs' = [CleanupRuns EXCEPT ![c] = [me EXCEPT !.pc = "noblob"]]
        ELSE /\ InstallHook([HookState EXCEPT !.isLoading = TRUE, !.error = NoError])
             /\ runs' = [CleanupRuns EXCEPT ![c] = [me EXCEPT !.pc = "read"]]
  /\ workerRef' = CleanupWorkerRef
  /\ workers' = CleanupWorkers
  /\ UNCHANGED <<store, hookMounted, nonHookVars>>

\* audioBlob.arrayBuffer() resolves; decodeAudioData is called
WaveReadDone(c) ==
  /\ runs[c].pc = "read"
  /\ runs' = [runs EXCEPT ![c].pc = "decode"]
  /\ UNCHANGED <<hookWaveformData, hookIsLoading, hookError, workerRef, workers,
                 store, hookMounted, nonHookVars>>

\* decodeAudioData settles: audioContext.close() is called, or the catch block runs
WaveDecodeDone(c) ==
  /\ runs[c].pc = "decode"
  /\ IF ValidBytes(runs[c].recordingId)
     THEN /\ runs' = [runs EXCEPT ![c].pc = "close"]
          /\ UNCHANGED <<hookWaveformData, hookIsLoading, hookError>>
     ELSE /\ runs' = [runs EXCEPT ![c].pc = "failed"]
          /\ InstallHook(ReportFailure(HookState, "EncodingError"))
  /\ UNCHANGED <<workerRef, workers, store, hookMounted, nonHookVars>>

\* audioContext.close() resolves: the worker is created and sent the request
WaveCloseDone(c) ==
  /\ runs[c].pc = "close"
  /\ runs' = [runs EXCEPT ![c].pc = "working"]
  /\ workers' = [workers EXCEPT ![c] = "running"]
  /\ workerRef' = c
  /\ UNCHANGED <<hookWaveformData, hookIsLoading, hookError, store, hookMounted,
                 nonHookVars>>

\* what the worker of run c posts
ResponseOf(c) ==
  onmessage([channelData |-> ChannelData(runs[c].recordingId),
             targetPoints |-> runs[c].targetPoints])[1]

\* worker.onmessage, up to its await of updateRecording or its end
WorkerMessage(c) ==
  /\ runs[c].pc = "working" /\ workers[c] = "running"
  /\ LET data == ResponseOf(c).waveformData
         workerError == ResponseOf(c).error
     IN IF workerError # "none"
        THEN /\ InstallHook(ReportFailure(HookState, workerError))
             /\ runs' = [runs EXCEPT ![c].pc = "error"]
             /\ UNCHANGED <<workerRef, workers>>
        ELSE /\ InstallHook([HookState EXCEPT !.waveformData = data, !.isLoading = FALSE])
             /\ IF ShouldCache(runs[c].recordingId, data)
                THEN /\ runs' = [runs EXCEPT ![c].pc = "caching", ![c].data = data]
                     /\ UNCHANGED <<workerRef, workers>>
                ELSE /\ runs' = [runs EXCEPT ![c].pc = "done", ![c].data = data]
                     /\ workers' = [workers EXCEPT ![c] = "terminated"]
                     /\ workerRef' = 0
  /\ UNCHANGED <<store, hookMounted, nonHookVars>>

\* updateRecording resolves: the envelope is stored and the worker released
CacheDone(c) ==
  /\ runs[c].pc = "caching"
  /\ store' = [store EXCEPT ![runs[c].recordingId] = runs[c].data]
  /\ runs' = [runs EXCEPT ![c].pc = "done"]
  /\ workers' = [workers EXCEPT ![c] = "terminated"]
  /\ workerRef' = 0
  /\ UNCHANGED <<hookWaveformData, hookIsLoading, hookError, hookMounted,
                 nonHookVars>>

\* worker.onerror
WorkerError(c) ==
  /\ runs[c].pc = "working" /\ workers[c] = "running"
  /\ InstallHook(ReportFailure(HookState, "Worker error"))
  /\ runs' = [runs EXCEPT ![c].pc = "error"]
  /\ workers' = [workers EXCEPT ![c] = "terminated"]
  /\ workerRef' = 0
  /\ UNCHANGED <<store, hookMounted, nonHookVars>>

\* The component is unmounted: the last run's cleanup.
WaveUnmount ==
  /\ hookMounted
  /\ hookMounted' = FALSE
  /\ runs' = CleanupRuns
  /\ workerRef' = CleanupWorkerRef
  /\ workers' = CleanupWorkers
  /\ UNCHANGED <<hookWaveformData, hookIsLoading, hookError, store,
                 nonHookVars>>

NextWave ==
  \/ \E c \in Runs, recordingId \in RecordingIds \cup {NoRecording},
        targetPoints \in TargetPointsChoices : WaveEffect(c, recordingId, targetPoints)
  \/ \E c \in Runs : WaveReadDone(c)
  \/ \E c \in Runs : WaveDecodeDone(c)
  \/ \E c \in Runs : WaveCloseDone(c)
  \/ \E c \in Runs : WorkerMessage(c)
  \/ \E c \in Runs : CacheDone(c)
  \/ \E c \in Runs : WorkerError(c)
  \/ WaveUnmount

SpecWave == Init /\ [][NextWave]_vars

\* ----------------------------------------------------------------------
\* Properties of the hook
\* ----------------------------------------------------------------------
\* run c's generateWaveform or one of its worker's handlers takes a step
RunStep(c) == runs[c].pc # "unused" /\ runs'[c].pc # runs[c].pc
\* run c's computation fails in this step
RunFails(c) ==
  /\ runs[c].pc \in {"decode", "working"}
  /\ runs'[c].pc \in {"failed", "error"}

\* C15 (No stale response after cancellation): once the cleanup has run for a
\* computation, no later step of that computation changes waveformData,
\* isLoading or error or writes the store.
C15_NoStaleResponse ==
  [][\A c \in Runs : (runs[c].cancelled /\ RunStep(c)) =>
       UNCHANGED <<hookWaveformData, hookIsLoading, hookError, store>>]_vars

\* C16 (Cache check): an effect run for a recording with a stored, non-empty
\* envelope sets waveformData to it, starts no decode, creates no worker and
\* leaves the store as it is.
C16_CacheCheck ==
  [][\A c \in Runs, id \in RecordingIds, n \in TargetPointsChoices :
       (WaveEffect(c, id, n) /\ store[id] # NoEnvelope) =>
         /\ hookWaveformData' = store[id]
         /\ runs'[c].pc = "cached"
         /\ \A w \in Runs : workers'[w] = "running" => workers[w] = "running"
         /\ store' = store]_vars

\* A's envelope was computed and stored by the first run; the second run,
\* for A again, returned the stored envelope.
C16_Witness ==
  /\ runs[1].recordingId = "A" /\ runs[1].pc = "done"
  /\ runs[2].recordingId = "A" /\ runs[2].pc = "cached"
  /\ store["A"] # NoEnvelope /\ hookWaveformData = store["A"]
  /\ workers[2] = "none"

C18_FailedComputation ==
  [][\A c \in Runs : (RunFails(c) /\ hookMounted) =>
       /\ hookError' # NoError /\ ~hookIsLoading'
       /\ hookWaveformData' = hookWaveformData
       /\ store' = store
       /\ runs'[c].data = NoEnvelope]_vars

\* The worker answered the only run with an error: targetPoints was above
\* the argument limit.
C18_Witness ==
  /\ runs[1].recordingId = "A" /\ runs[1].targetPoints > MaxArguments
  /\ runs[1].pc = "error" /\ runs[2].pc = "unused"
  /\ hookError = "RangeError" /\ ~hookIsLoading
  /\ hookWaveformData = NoEnvelope /\ store["A"] = NoEnvelope
  /\ hookMounted

\* ======================================================================
\* Part 4: the loop editor (src/src/components/LoopEditor.tsx)
\* ======================================================================
\* Editor times are counted in units of 1/30 s.
MIN_LOOP_DURATION == 3 \* 0.1 s
MaxDuration == 7       \* the longest recording
\* the duration prop: a recording shorter than MIN_LOOP_DURATION, or a longer one
Durations == {MIN_LOOP_DURATION - 1, MaxDuration}
\* pointer positions, as clickPosition * duration
Positions == 0..MaxDuration
\* times a user can type into the minutes and seconds fields
TypedTimes == -1..(MaxDuration + 1)

Max(a, b) == IF a > b THEN a ELSE b

\* the state outside the loop editor
nonEditorVars == <<reducerVars, hookVars, importVars, schedVars, ctxState, ctxTime, calls,
                   mounted, now, storeCalls>>

\* Math.floor(t / 60).toString() and (t % 60).toFixed(1), read back as a
\* time: t rounded to a tenth of a second (t >= 0)
ToFixed1(t) ==
  ((2 * t + MIN_LOOP_DURATION) \div (2 * MIN_LOOP_DURATION)) * MIN_LOOP_DURATION

\* The parent stores the emitted points (handleLoopPointsChange, which also
\* sets hasUnsavedChanges) and passes them back as the loopPoints prop; the
\* prop effect copies them into tempLoopPoints and, if
\* they are not null, into the input fields.
Emit(points, start, end) ==
  /\ editorLoopPoints' = points
  /\ hasUnsavedChanges' = TRUE
  /\ tempLoopPoints' = points
  /\ startInput' = IF points # NoLoopPoints THEN ToFixed1(points.start) ELSE start
  /\ endInput' = IF points # NoLoopPoints THEN ToFixed1(points.end) ELSE end

\* a start taken as dragged or typed
StartUnclamped(newTime, points) == newTime

\* Math.min(newTime, tempLoopPoints.end - MIN_LOOP_DURATION)
ClampStart(newTime, points) == Min(newTime, points.end - MIN_LOOP_DURATION)

\* Math.max(newTime, tempLoopPoints.start + MIN_LOOP_DURATION)
ClampEnd(newTime, points) == Max(newTime, points.start + MIN_LOOP_DURATION)

handleSetLoop ==
  /\ tempLoopPoints = NoLoopPoints
  /\ Emit([start |-> 0, end |-> editorDuration], startInput, endInput)
  /\ UNCHANGED <<editorDuration, dragging, saveVars, nonEditorVars>>

\* the user confirms the reset
handleResetLoop ==
  /\ tempLoopPoints # NoLoopPoints
  /\ Emit(NoLoopPoints, startInput, endInput)
  /\ UNCHANGED <<editorDuration, dragging, saveVars, nonEditorVars>>

\* handleMouseDown and handleTouchStart on a marker
handleMouseDown(marker) ==
  /\ tempLoopPoints # NoLoopPoints
  /\ dragging' = marker
  /\ UNCHANGED <<editorDuration, editorLoopPoints, tempLoopPoints, startInput, endInput,
                 hasUnsavedChanges, saveVars, nonEditorVars>>

\* the body handleMouseMove and handleTouchMove share
DragTo(newTime) ==
  /\ dragging # "null" /\ tempLoopPoints # NoLoopPoints
  /\ LET newStart == IF dragging = "start" THEN ClampStart(newTime, tempLoopPoints)
                     ELSE tempLoopPoints.start
         newEnd == IF dragging = "end" THEN ClampEnd(newTime, tempLoopPoints)
                   ELSE tempLoopPoints.end
     IN Emit([start |-> newStart, end |-> newEnd], startInput, endInput)
  /\ UNCHANGED <<editorDuration, dragging, saveVars, nonEditorVars>>

handleMouseMove(newTime) == DragTo(newTime)

handleTouchMove(newTime) == DragTo(newTime)

\* handleMouseUp, also the touchend listener
handleMouseUp ==
  /\ dragging # "null"
  /\ dragging' = "null"
  /\ UNCHANGED <<editorDuration, editorLoopPoints, tempLoopPoints, startInput, endInput,
                 hasUnsavedChanges, saveVars, nonEditorVars>>

\* onChange of the start fields
EditStartInput(t) ==
  /\ tempLoopPoints # NoLoopPoints
  /\ startInput' = t
  /\ UNCHANGED <<editorDuration, editorLoopPoints, tempLoopPoints, dragging, endInput,
                 hasUnsavedChanges, saveVars, nonEditorVars>>

\* onChange of the end fields
EditEndInput(t) ==
  /\ tempLoopPoints # NoLoopPoints
  /\ endInput' = t
  /\ UNCHANGED <<editorDuration, editorLoopPoints, tempLoopPoints, dragging, startInput,
                 hasUnsavedChanges, saveVars, nonEditorVars>>

\* onBlur or Enter in a start field
applyStartTime ==
  /\ tempLoopPoints # NoLoopPoints
  /\ LET newStart == startInput
     IN IF newStart < 0 \/ newStart > editorDuration
        THEN /\ startInput' = ToFixed1(tempLoopPoints.start)
             /\ UNCHANGED <<editorLoopPoints, tempLoopPoints, endInput, hasUnsavedChanges>>
        ELSE Emit([start |-> ClampStart(newStart, tempLoopPoints),
                   end |-> tempLoopPoints.end], startInput, endInput)
  /\ UNCHANGED <<editorDuration, dragging, saveVars, nonEditorVars>>

\* onBlur or Enter in an end field
applyEndTime ==
  /\ tempLoopPoints # NoLoopPoints
  /\ LET newEnd == endInput
     IN IF newEnd < 0 \/ newEnd > editorDuration
        THEN /\ endInput' = ToFixed1(tempLoopPoints.end)
             /\ UNCHANGED <<editorLoopPoints, tempLoopPoints, startInput, hasUnsavedChanges>>
        ELSE Emit([start |-> tempLoopPoints.start,
                   end |-> ClampEnd(newEnd, tempLoopPoints)], startInput, endInput)
  /\ UNCHANGED <<editorDuration, dragging, saveVars, nonEditorVars>>

\* The editor is rendered for a recording without loop points.
InitEditor ==
  /\ InitScheduler /\ ReducerIdle /\ InitHook /\ ImportIdle
  /\ editorDuration \in Durations
  /\ editorLoopPoints = NoLoopPoints
  /\ tempLoopPoints = NoLoopPoints
  /\ dragging = "null"
  /\ startInput = 0
  /\ endInput = 0
  /\ hasUnsavedChanges = FALSE
  /\ storedLoopPoints = NoLoopPoints
  /\ recordingLoopPoints = NoLoopPoints
  /\ savePc = "idle"
  /\ savePoints = NoLoopPoints

NextEditor ==
  \/ handleSetLoop
  \/ handleResetLoop
  \/ \E marker \in {"start", "end"} : handleMouseDown(marker)
  \/ \E newTime \in Positions : newTime <= editorDuration /\ handleMouseMove(newTime)
  \/ \E newTime \in Positions : newTime <= editorDuration /\ handleTouchMove(newTime)
  \/ handleMouseUp
  \/ \E t \in TypedTimes : EditStartInput(t)
  \/ \E t \in TypedTimes : EditEndInput(t)
  \/ applyStartTime
  \/ applyEndTime

SpecEditor == InitEditor /\ [][NextEditor]_vars

\* ----------------------------------------------------------------------
\* The recording detail page (src/unnamed/part_003) with its player
\* (AudioPlayerWithLoop, src/unnamed/part_001) around the editor
\* ----------------------------------------------------------------------
\* the page's variables outside the save
nonSaveVars == <<editorDuration, editorLoopPoints, tempLoopPoints, dragging,
                 startInput, endInput, nonEditorVars>>

\* the save that stores what is in the database instead of the given points
SavedValueStale(points) == storedLoopPoints

\* updateRecording(recording.id, { loopPoints: points })
SavedValue(points) == points

\* The user presses Save Loop Points (shown while hasUnsavedChanges): the
\* player's handleSaveLoopPoints passes its loopPoints state to the page's
\* handleSaveLoopPoints, which calls updateRecording and awaits it.
handleSaveLoopPoints ==
  /\ hasUnsavedChanges /\ savePc = "idle"
  /\ savePc' = "saving"
  /\ savePoints' = editorLoopPoints
  /\ UNCHANGED <<storedLoopPoints, recordingLoopPoints, hasUnsavedChanges, nonSaveVars>>

\* updateRecording resolves: the page copies the points into its recording
\* state, and the player clears hasUnsavedChanges.
SaveDone ==
  /\ savePc = "saving"
  /\ storedLoopPoints' = SavedValue(savePoints)
  /\ recordingLoopPoints' = savePoints
  /\ hasUnsavedChanges' = FALSE
  /\ savePc' = "idle"
  /\ savePoints' = NoLoopPoints
  /\ UNCHANGED nonSaveVars

\* updateRecording rejects: the page's catch reports it and returns, so the
\* player's await resolves and it clears hasUnsavedChanges all the same.
SaveFailed ==
  /\ savePc = "saving"
  /\ hasUnsavedChanges' = FALSE
  /\ savePc' = "idle"
  /\ savePoints' = NoLoopPoints
  /\ UNCHANGED <<storedLoopPoints, recordingLoopPoints, nonSaveVars>>

\* The page's play and loop buttons, the loop button being rendered while
\* the player holds loop points: one play call for the page's recording A.
\* The scheduler takes A's duration and loop points as in Part 1.
PagePlay(loop) ==
  /\ loop => editorLoopPoints # NoLoopPoints
  /\ Play(1, "A", loop)

\* what the user of the page types and where the pointer is dragged to: a
\* time in range, one past the end, and the two ends of the waveform
PageTypedTimes == {MIN_LOOP_DURATION, MaxDuration + 1}
PagePositions == {0, MaxDuration}

\* The page is open on recording A, which has no stored loop points yet.
InitPage == InitEditor /\ editorDuration = MaxDuration

NextPage ==
  \/ handleSetLoop
  \/ handleResetLoop
  \/ \E marker \in {"start", "end"} : handleMouseDown(marker)
  \/ \E newTime \in PagePositions : handleMouseMove(newTime)
  \/ handleMouseUp
  \/ \E t \in PageTypedTimes : EditStartInput(t)
  \/ \E t \in PageTypedTimes : EditEndInput(t)
  \/ applyStartTime
  \/ applyEndTime
  \/ handleSaveLoopPoints
  \/ SaveDone
  \/ SaveFailed
  \/ \E loop \in BOOLEAN : PagePlay(loop)
  \/ \E i \in Calls : ReadDone(i)
  \/ \E i \in Calls : DecodeDone(i)
  \/ \E d \in FrameSteps : Frame(d)
  \/ \E h \in rafDue : Tick(h)
  \/ Stop

SpecPage == InitPage /\ [][NextPage]_vars

\* ----------------------------------------------------------------------
\* Properties of the loop editor
\* ----------------------------------------------------------------------
ValidLoopPoints(points) ==
  /\ 0 <= points.start /\ points.end <= editorDuration
  /\ points.end - points.start >= MIN_LOOP_DURATION

\* the value in [lo, hi] nearest to t
Nearest(t, lo, hi) == Max(lo, Min(t, hi))

C20_ClampNeverReject ==
  [][editorDuration >= MIN_LOOP_DURATION =>
       /\ applyStartTime =>
            /\ tempLoopPoints'.start =
                 Nearest(startInput, 0, tempLoopPoints.end - MIN_LOOP_DURATION)
            /\ editorLoopPoints' = tempLoopPoints'
       /\ applyEndTime =>
            /\ tempLoopPoints'.end =
                 Nearest(endInput, tempLoopPoints.start + MIN_LOOP_DURATION, editorDuration)
            /\ editorLoopPoints' = tempLoopPoints'
       /\ \A newTime \in Positions : (newTime <= editorDuration /\ DragTo(newTime)) =>
            /\ dragging = "start" =>
                 tempLoopPoints'.start =
                   Nearest(newTime, 0, tempLoopPoints.end - MIN_LOOP_DURATION)
            /\ dragging = "end" =>
                 tempLoopPoints'.end =
                   Nearest(newTime, tempLoopPoints.start + MIN_LOOP_DURATION, editorDuration)
            /\ editorLoopPoints' = tempLoopPoints']_vars

\* ======================================================================
\* Part 5: play history, stored loop points and the session's life cycle
\* ======================================================================
\* call i's decode succeeds in this step
DecodeSucceeds(i) ==
  /\ calls[i].pc = "decode" /\ ValidBytes(calls[i].recordingId)
  /\ calls'[i].pc # "decode"

\* the entries of the history that belong to recording id
EntriesOf(history, id) == SelectSeq(history, LAMBDA e : e.recordingId = id)
EntriesNotOf(history, id) == SelectSeq(history, LAMBDA e : e.recordingId # id)

\* C21 (Play history): the step in which a play call's decode succeeds
\* records one entry (recordingId, Date.now()) for the call's recording,
\* the only entry of that recording, and leaves the other recordings'
\* entries as they were; every other step (toggle-stop, stop(), a failed
\* decode, a tick) leaves the history as it was.
C21_PlayHistory ==
  [][/\ \A i \in Calls : DecodeSucceeds(i) =>
          LET id == calls[i].recordingId
          IN /\ EntriesOf(playHistory', id) = <<[recordingId |-> id, timestamp |-> now]>>
             /\ EntriesNotOf(playHistory', id) = EntriesNotOf(playHistory, id)
     /\ (~\E i \in Calls : DecodeSucceeds(i)) => playHistory' = playHistory]_vars

\* A was played, stopped by a toggle call and, a clock unit later, played
\* again: its one entry carries the time of the second play.
C21_Witness ==
  /\ \A i \in Calls : calls[i].recordingId = "A" /\ calls[i].pc = "done"
  /\ calls[2].found = "same"
  /\ playHistory = <<[recordingId |-> "A", timestamp |-> 1]>>
  /\ playingRecordingId = "A"

\* C22 (Recently played): recentlyPlayedRecordings holds exactly the ids
\* that have a history entry later than now - 7 days, each id once.
C22_RecentlyPlayed ==
  /\ {recentlyPlayedRecordings[k] : k \in DOMAIN recentlyPlayedRecordings} =
       {id \in RecordingIds :
          \E k \in DOMAIN playHistory : /\ playHistory[k].recordingId = id
                                        /\ playHistory[k].timestamp > now - SEVEN_DAYS}
  /\ \A j, k \in DOMAIN recentlyPlayedRecordings :
       recentlyPlayedRecordings[j] = recentlyPlayedRecordings[k] => j = k

\* C23 (Loop points are persisted only on explicit save): the stored loop
\* points change only in the step in which a save completes, and then to
\* the pair the save was given, which is the pair the player held (the
\* edited pair) when the save was invoked; no edit and no play, tick, loop
\* restart or stop changes them.
C23_PersistOnSave ==
  [][/\ storedLoopPoints' # storedLoopPoints => SaveDone
     /\ SaveDone => storedLoopPoints' = savePoints
     /\ handleSaveLoopPoints => savePoints' = editorLoopPoints]_vars

\* The start marker was dragged to the far end and the pair saved, then the
\* loop was reset without saving: the store holds the saved pair while A
\* loops in the scheduler.
C23_Witness ==
  /\ storedLoopPoints = [start |-> MaxDuration - MIN_LOOP_DURATION, end |-> MaxDuration]
  /\ editorLoopPoints = NoLoopPoints /\ hasUnsavedChanges
  /\ savePc = "idle"
  /\ playingRecordingId = "A" /\ isLoopingRef
  /\ pauseTimeRef = loopPointsRef.start /\ startTimeRef > 0

\* C25 (Stop during decode): when stop() was called while a play call's
\* decode was pending, the arrival of the decode starts no session: no
\* source is started, no tick is requested and the call's recording is not
\* reported playing.
C25_StopDuringDecode ==
  [][\A i \in Calls : (calls[i].pc = "decode" /\ calls[i].stopped /\ DecodeDone(i)) =>
       /\ liveSources' = {} /\ sourceNodeRef' = 0
       /\ rafPending' = {}
       /\ ~isPlaying(calls[i].recordingId, "undefined")']_vars

\* C26 (Buffer ownership): in every state, overlapping play calls included,
\* every started source plays the buffer decoded by the call that opened the
\* source's context, and while a recording is reported playing the buffer
\* held and the buffer the current source plays are the ones decoded from
\* that recording's bytes by the call that established the session.
C26_BufferOwnership ==
  /\ \A x \in liveSources : x.buffer = x.ctx
  /\ playingRecordingId # NoRecording =>
       /\ audioBufferRef # 0 => calls[audioBufferRef].recordingId = playingRecordingId
       /\ \A x \in liveSources :
            x.node = sourceNodeRef => calls[x.buffer].recordingId = playingRecordingId

\* B's call was made while A's call was still decoding; A's session started
\* first and was replaced by B's, whose source plays B's own buffer.
C26_Witness ==
  /\ calls[1].recordingId = "A" /\ calls[1].pc = "done"
  /\ calls[2].recordingId = "B" /\ calls[2].found = "inflight" /\ calls[2].pc = "done"
  /\ calls[3].pc = "unused"
  /\ playingRecordingId = "B" /\ audioBufferRef = 2 /\ audioContextRef = 2
  /\ \E x \in liveSources : x.node = sourceNodeRef /\ x.buffer = 2 /\ x.ctx = 2

\* what a tick works on has been released: a reference it needs is cleared,
\* no source is current, or the current source's context is closed
SessionReleased ==
  \/ audioContextRef = 0 \/ audioBufferRef = 0
  \/ sourceNodeRef = 0
  \/ \E x \in liveSources : x.node = sourceNodeRef /\ ctxState[x.ctx] = "closed"

\* C27 (Stale tick is a no-op): a tick callback that runs when its session has
\* been torn down (what it works on is released) changes nothing of the
\* scheduler: state, references and sources stay as they are, no source is
\* started and no further tick is requested; the callback only leaves the
\* set of pending callbacks.
C27_StaleTickNoOp ==
  [][\A h \in rafDue : (TickRuns(h) /\ SessionReleased) =>
       /\ UNCHANGED <<playingRecordingId, isLooping, currentTime, duration, playHistory,
                      recentlyPlayedRecordings, audioContextRef, audioBufferRef,
                      sourceNodeRef, gainNodeRef, startTimeRef, pauseTimeRef,
                      animationFrameRef, loopPointsRef, isLoopingRef, liveSources>>
       /\ rafPending' = rafPending \ {h}]_vars

\* The provider was unmounted while A's decode was pending; the call went on,
\* requested a tick, and the tick has run and requested nothing.
C27_Witness ==
  /\ ~mounted
  /\ calls[1].recordingId = "A" /\ calls[1].pc = "done"
  /\ audioContextRef = 0 /\ audioBufferRef = 1 /\ sourceNodeRef = 0
  /\ animationFrameRef # 0
  /\ rafPending = {} /\ rafDue = {}

\* C28 (Loop restart step): in Loop mode with loop points, a tick that
\* computes a position >= loopPoints.end leaves, within that tick, exactly one
\* started source: a new one on the session's context and buffer that starts
\* at loopPoints.start and plays end - start (the previous source is stopped);
\* pauseTimeRef is loopPoints.start, startTimeRef is the context's current
\* time, and the next tick is requested.
C28_LoopRestartStep ==
  [][\A h \in rafDue :
       (TickRuns(h) /\ LoopSession /\ NewTime >= loopPointsRef.end) =>
         /\ \E x \in liveSources' :
              /\ liveSources' = {x}
              /\ sourceNodeRef' = x.node
              /\ x.ctx = audioContextRef /\ x.buffer = audioBufferRef
              /\ x.offset = loopPointsRef.start
              /\ x.playDuration = loopPointsRef.end - loopPointsRef.start
         /\ pauseTimeRef' = loopPointsRef.start
         /\ startTimeRef' = ctxTime[audioContextRef]
         /\ animationFrameRef' # 0 /\ rafPending' = {animationFrameRef'}
         /\ UNCHANGED <<playingRecordingId, isLooping, isLoopingRef, loopPointsRef>>]_vars

\* A's loop has just been restarted by a tick: the only source starts at the
\* loop start, the clock origin is the present device time (after the first
\* frame) and the tracked position is the one that crossed the loop end.
C28_Witness ==
  /\ calls[1].recordingId = "A" /\ calls[1].loop /\ calls[1].pc = "done"
  /\ calls[2].pc = "unused"
  /\ LoopSession
  /\ currentTime >= loopPointsRef.end
  /\ pauseTimeRef = loopPointsRef.start
  /\ startTimeRef = ctxTime[audioContextRef] /\ startTimeRef > 0
  /\ rafPending = {animationFrameRef} /\ rafDue = {}
  /\ \E x \in liveSources : liveSources = {x} /\ x.offset = loopPointsRef.start

\* a recording is reported playing
Playing == playingRecordingId # NoRecording
\* the session reported in this state is not the one reported in the next
LeavesSession == <<playingRecordingId', isLooping'>> # <<playingRecordingId, isLooping>>
\* a step of a play call: the call is made or goes on after an await
PlayCallStep == calls' # calls

\* C29 (State machine): a reported session ends or is replaced only in a tick
\* of a Normal-mode session that computes a position >= the buffer's duration,
\* in stop(), or in a step of a play call; a tick of a Loop-mode session
\* leaves the reported session as it is; and from Idle a recording becomes
\* reported only in the step in which a play call's decode succeeds, and it is
\* that call's recording.
C29_StateMachine ==
  [][/\ (Playing /\ LeavesSession) =>
          \/ \E h \in rafDue :
               /\ TickRuns(h) /\ NormalSession
               /\ NewTime >= BufferDuration(calls[audioBufferRef].recordingId)
               /\ ~Playing'
          \/ Stop
          \/ PlayCallStep
     /\ \A h \in rafDue : (TickRuns(h) /\ Playing /\ isLooping) => ~LeavesSession
     /\ (~Playing /\ Playing') =>
          \E i \in Calls : DecodeSucceeds(i) /\ playingRecordingId' = calls[i].recordingId]_vars

\* A was played in Normal mode from Idle and a tick at the end of its buffer
\* ended the session: nothing is reported playing, the references of the
\* session are still set.
C29_Witness ==
  /\ calls[1].recordingId = "A" /\ ~calls[1].loop /\ calls[1].pc = "done"
  /\ calls[2].pc = "unused"
  /\ ~Playing /\ ~isLooping /\ currentTime = 0
  /\ audioBufferRef = 1 /\ audioContextRef = 1
  /\ ctxTime[1] >= BufferDuration("A")
  /\ liveSources = {} /\ rafPending = {}

\* a tick has something to work on
ActiveSession == Playing /\ audioContextRef # 0 /\ audioBufferRef # 0

\* C30 (Position tracking): a tick of an active session that goes on tracks
\* the position pauseTimeRef + (device clock - startTimeRef), the clock being
\* that of the context the current source plays on; a tick ends the
\* session only when that position has reached the buffer's duration, and
\* then the tracked position is reset to 0; and pauseTimeRef and
\* startTimeRef change only in a step that starts a source, to that source's
\* offset and to the time of its context.
C30_PositionTracking ==
  [][/\ \A h \in rafDue : (TickRuns(h) /\ ActiveSession) =>
          /\ \A x \in liveSources : x.node = sourceNodeRef => x.ctx = audioContextRef
          /\ IF Playing'
             THEN currentTime' = NewTime
             ELSE /\ NewTime >= BufferDuration(calls[audioBufferRef].recordingId)
                  /\ currentTime' = 0
     /\ (pauseTimeRef' # pauseTimeRef \/ startTimeRef' # startTimeRef) =>
          \E x \in liveSources' :
            /\ x.node = sourceNodeRef'
            /\ pauseTimeRef' = x.offset
            /\ startTimeRef' = ctxTime[x.ctx]]_vars

\* B plays in Normal mode; its source was started when the device clock
\* already showed a positive time, and a later tick has tracked the time
\* played since.
C30_Witness ==
  /\ calls[1].recordingId = "B" /\ ~calls[1].loop /\ calls[1].pc = "done"
  /\ calls[2].pc = "unused"
  /\ NormalSession
  /\ startTimeRef > 0 /\ pauseTimeRef = 0
  /\ currentTime > 0 /\ currentTime = ctxTime[1] - startTimeRef
  /\ rafPending = {animationFrameRef} /\ rafDue = {}

\* ======================================================================
\* Part 6: import of an export file (src/unnamed/part_005, importAllData)
\* ======================================================================
MaxEntries == 2        \* entries of one kind in an export file

\* the state outside the import
nonImportVars == <<reducerVars, hookVars, editorVars, schedVars, ctxState, ctxTime,
                   calls, mounted, now, storeCalls>>

\* Entries as the file spells them.  A recording exported with audio carries
\* audioBlob: null with audioBase64 and audioBlobType; one without audio is
\* written as stored.
TagEntries == {[id |-> "t1", value |-> "djembe"]}
RhythmEntries == {[id |-> "r1", notes |-> "fast"]}
RecordingEntries ==
  {[id |-> "A", audioBlob |-> "null"],
   [id |-> "A", audioBlob |-> "null", audioBase64 |-> "QUI=", audioBlobType |-> "audio/webm"],
   [id |-> "B", audioBlob |-> "null", audioBase64 |-> "QUI=", audioBlobType |-> "audio/webm"]}

\* what the device holds before the import
OldTags == {{}, {[id |-> "t1", value |-> "conga"]}, {[id |-> "t2", value |-> "conga"]}}
OldRhythms == {{}, {[id |-> "r1", notes |-> "slow"]}, {[id |-> "r2", notes |-> "slow"]}}
OldRecordings ==
  {{}, {[id |-> "A", audioBlob |-> <<67>>]}, {[id |-> "C", audioBlob |-> <<67>>]}}

\* the files a user can pick: with or without a version field, the lists of
\* any length up to MaxEntries, an entry possibly repeated
Files ==
  [version : BOOLEAN, tags : SeqsUpTo(TagEntries, MaxEntries),
   rhythms : SeqsUpTo(RhythmEntries, MaxEntries),
   recordings : SeqsUpTo(RecordingEntries, MaxEntries)]

\* atob(audioBase64) and the charCodeAt loop: the bytes the text encodes
Atob(text) == IF text = "QUI=" THEN <<65, 66>> ELSE <<>>

\* the map over data.recordings
WithBlob(recording) ==
  IF "audioBase64" \in DOMAIN recording /\ recording.audioBase64 # ""
  THEN [id |-> recording.id, audioBlob |-> Atob(recording.audioBase64)]
  ELSE recording

\* table.clear() that removes nothing
ClearKeepsAll(table) == table

\* table.clear()
Clear(table) == {}

\* the entries of a list that bulkAdd cannot add: their key is in the table
\* already or was added by an earlier entry of the list
Rejected(table, list) ==
  {k \in DOMAIN list :
     \/ \E e \in table : e.id = list[k].id
     \/ \E j \in DOMAIN list : j < k /\ list[j].id = list[k].id}

\* table.bulkAdd(list): the entries that can be added are added; the call
\* rejects with a BulkError if any entry could not
BulkAdd(table, list) ==
  [table |-> table \cup {list[k] : k \in DOMAIN list \ Rejected(table, list)},
   rejects |-> Rejected(table, list) # {}]

\* importAllData(file) is called: file.text() is awaited
ImportStart ==
  /\ importPc = "idle"
  /\ importPc' = "text"
  /\ importResult' = "none"
  /\ UNCHANGED <<dbTags, dbRhythms, dbRecordings, importFile, nonImportVars>>

\* the text is parsed and the format checked; db.tags.clear() is called
ImportParse ==
  /\ importPc = "text"
  /\ IF ~importFile.version
     THEN importPc' = "returned" /\ importResult' = "invalid"
     ELSE importPc' = "clearTags" /\ importResult' = importResult
  /\ UNCHANGED <<dbTags, dbRhythms, dbRecordings, importFile, nonImportVars>>

ImportClearTags ==
  /\ importPc = "clearTags"
  /\ dbTags' = Clear(dbTags)
  /\ importPc' = "clearRhythms"
  /\ UNCHANGED <<dbRhythms, dbRecordings, importFile, importResult, nonImportVars>>

ImportClearRhythms ==
  /\ importPc = "clearRhythms"
  /\ dbRhythms' = Clear(dbRhythms)
  /\ importPc' = "clearRecordings"
  /\ UNCHANGED <<dbTags, dbRecordings, importFile, importResult, nonImportVars>>

ImportClearRecordings ==
  /\ importPc = "clearRecordings"
  /\ dbRecordings' = Clear(dbRecordings)
  /\ importPc' = "addTags"
  /\ UNCHANGED <<dbTags, dbRhythms, importFile, importResult, nonImportVars>>

\* a rejected bulkAdd is caught: the import returns its failure
ImportAddTags ==
  /\ importPc = "addTags"
  /\ LET r == BulkAdd(dbTags, importFile.tags)
     IN /\ dbTags' = r.table
        /\ importPc' = IF r.rejects THEN "returned" ELSE "addRhythms"
        /\ importResult' = IF r.rejects THEN "failed" ELSE importResult
  /\ UNCHANGED <<dbRhythms, dbRecordings, importFile, nonImportVars>>

ImportAddRhythms ==
  /\ importPc = "addRhythms"
  /\ LET r == BulkAdd(dbRhythms, importFile.rhythms)
     IN /\ dbRhythms' = r.table
        /\ importPc' = IF r.rejects THEN "returned" ELSE "addRecordings"
        /\ importResult' = IF r.rejects THEN "failed" ELSE importResult
  /\ UNCHANGED <<dbTags, dbRecordings, importFile, nonImportVars>>

ImportAddRecordings ==
  /\ importPc = "addRecordings"
  /\ LET recordingsWithBlobs ==
           [k \in DOMAIN importFile.recordings |-> WithBlob(importFile.recordings[k])]
         r == BulkAdd(dbRecordings, recordingsWithBlobs)
     IN /\ dbRecordings' = r.table
        /\ importPc' = "returned"
        /\ importResult' = IF r.rejects THEN "failed" ELSE "success"
  /\ UNCHANGED <<dbTags, dbRhythms, importFile, nonImportVars>>

\* A device with some data, and a file picked for import.
InitImport ==
  /\ InitScheduler /\ ReducerIdle /\ InitHook /\ EditorIdle
  /\ storeCalls = <<>>
  /\ dbTags \in OldTags /\ dbRhythms \in OldRhythms /\ dbRecordings \in OldRecordings
  /\ importFile \in Files
  /\ importPc = "idle"
  /\ importResult = "none"

NextImport ==
  \/ ImportStart
  \/ ImportParse
  \/ ImportClearTags
  \/ ImportClearRhythms
  \/ ImportClearRecordings
  \/ ImportAddTags
  \/ ImportAddRhythms
  \/ ImportAddRecordings

SpecImport == InitImport /\ [][NextImport]_vars

\* ----------------------------------------------------------------------
\* Properties of the import
\* ----------------------------------------------------------------------
\* the entries of a list, as a set
Range(list) == {list[k] : k \in DOMAIN list}

\* the table holds file entry r with its audio decoded
HoldsRecording(table, r) ==
  \E s \in table :
    /\ s.id = r.id
    /\ IF "audioBase64" \in DOMAIN r
       THEN s = [id |-> r.id, audioBlob |-> Atob(r.audioBase64)]
       ELSE s = r

\* C24 (Import replaces all data): once importAllData has returned success,
\* the tags and rhythms tables hold exactly the file's entries, the
\* recordings table holds one entry for each of the file's recordings (the
\* audio decoded into a blob) and no other, and so nothing the device held
\* before.
C24_ImportReplaces ==
  importResult = "success" =>
    /\ dbTags = Range(importFile.tags)
    /\ dbRhythms = Range(importFile.rhythms)
    /\ \A r \in Range(importFile.recordings) : HoldsRecording(dbRecordings, r)
    /\ \A s \in dbRecordings : \E r \in Range(importFile.recordings) : r.id = s.id
    /\ Cardinality(dbRecordings) = Len(importFile.recordings)

\* A file with t1, r1 and the recordings A (without audio) and B has been
\* imported: the tables hold these and B's audio is a blob of two bytes.
C24_Witness ==
  /\ importResult = "success" /\ importPc = "returned"
  /\ Len(importFile.tags) = 1 /\ Len(importFile.rhythms) = 1
  /\ dbTags = {[id |-> "t1", value |-> "djembe"]}
  /\ dbRhythms = {[id |-> "r1", notes |-> "fast"]}
  /\ dbRecordings = {[id |-> "A", audioBlob |-> "null"],
                     [id |-> "B", audioBlob |-> <<65, 66>>]}

\* ======================================================================
\* Part 7: further properties of the scheduler, the hook, the reducer and
\* the store
\* ======================================================================
\* the start offsets a caller may pass
StartOffsets == 0..MaxTime
\* a source without its gain
WithoutGain(x) == [node |-> x.node, ctx |-> x.ctx, buffer |-> x.buffer,
                   offset |-> x.offset, playDuration |-> x.playDuration]
\* the cells with the gains of the sources left out
PositionView(s) == [s EXCEPT !.liveSources = {WithoutGain(x) : x \in @}]

\* C31 (Fade-in is position-neutral): in every state the scheduler reaches and
\* for every start offset, startPlayback with fade-in requested throws exactly
\* when it throws without, and leaves every cell (startTimeRef, pauseTimeRef,
\* the source's offset and play duration, the references) as startPlayback
\* without fade-in does; only the gain of the started source differs (0
\* instead of 1).
C31_FadeNeutral ==
  \A startFrom \in StartOffsets :
    LET faded == startPlayback(Cur, startFrom, TRUE)
        plain == startPlayback(Cur, startFrom, FALSE)
    IN /\ faded.threw = plain.threw
       /\ PositionView(faded.st) = PositionView(plain.st)
       /\ \A x \in faded.st.liveSources :
            x.node = faded.st.sourceNodeRef /\ x \notin liveSources => x.gain = 0

\* A's loop session is running after the first frames: a restart with fade-in
\* from a position inside the loop starts a source there, at gain 0, with the
\* clock origin at the present device time.
C31_Witness ==
  /\ LoopSession /\ ctxTime[audioContextRef] > 0 /\ sourceNodeRef # 0
  /\ LET faded == startPlayback(Cur, loopPointsRef.start + 1, TRUE)
     IN /\ ~faded.threw
        /\ faded.st.pauseTimeRef = loopPointsRef.start + 1
        /\ faded.st.startTimeRef = ctxTime[audioContextRef]
        /\ \E x \in faded.st.liveSources :
             /\ faded.st.liveSources = {x}
             /\ x.gain = 0 /\ x.offset = loopPointsRef.start + 1
             /\ x.playDuration = loopPointsRef.end - x.offset

\* the audio contexts that are not closed: running, or closing with close()
\* not yet resolved
OpenContexts == {c \in Calls : ctxState[c] \in {"running", "closing"}}

C33_NoPhantomPlaying ==
  \A id \in RecordingIds :
    isPlaying(id, "undefined") =>
      /\ audioContextRef # 0 /\ ctxState[audioContextRef] = "running"
      /\ rafPending # {}

\* the end of what the session plays: the loop end in Loop mode with loop
\* points, the end of the buffer otherwise
AudibleEnd ==
  IF isLooping /\ loopPointsRef # NoLoopPoints
  THEN loopPointsRef.end
  ELSE BufferDuration(calls[audioBufferRef].recordingId)

\* C34 (End of buffer is always handled): a tick of an active session that
\* computes a position at or past the end of the audible range either ends
\* the session (nothing is reported playing afterwards) or restarts playback
\* (a source is started and the clock origin reset), whatever the loop flag
\* and the loop points, loop = true without loop points included.
C34_EndHandled ==
  [][\A h \in rafDue :
       (TickRuns(h) /\ ActiveSession /\ NewTime >= AudibleEnd) =>
         \/ ~Playing'
         \/ /\ startTimeRef' = ctxTime[audioContextRef]
            /\ \E x \in liveSources' : x.node = sourceNodeRef' /\ x.offset = pauseTimeRef']_vars

\* C35 (At most one live source): in every state, after any sequence of play
\* calls (overlapping ones included), ticks, loop restarts and stop(), at most
\* one buffer source is started and not yet stopped, and it is the one
\* sourceNodeRef holds.
C35_OneLiveSource ==
  /\ Cardinality(liveSources) <= 1
  /\ \A x \in liveSources : x.node = sourceNodeRef

\* A was played in Loop mode and then B, whose session has been ticking: the
\* one source live is B's.
C35_Witness ==
  /\ calls[1].recordingId = "A" /\ calls[1].loop /\ calls[1].pc = "done"
  /\ calls[2].recordingId = "B" /\ calls[2].pc = "done"
  /\ playHistory[1].recordingId = "B"
  /\ \E x \in liveSources : liveSources = {x} /\ x.buffer = 2 /\ x.node = sourceNodeRef
  /\ ctxTime[2] > 0 /\ currentTime > 0

\* The hook with its promises and its worker making progress: a pending
\* blob read, decode, close() or store write settles, and a running worker
\* answers.  Effect runs, the unmount and worker.onerror may or may not occur.
SpecWaveFair ==
  /\ SpecWave
  /\ \A c \in Runs :
       /\ WF_vars(WaveReadDone(c))
       /\ WF_vars(WaveDecodeDone(c))
       /\ WF_vars(WaveCloseDone(c))
       /\ WF_vars(WorkerMessage(c))
       /\ WF_vars(CacheDone(c))

\* C36 (Waveform loading always ends): whenever the mounted hook reports
\* isLoading true, it later reports isLoading false (or is unmounted),
\* whether the computation succeeds, fails or is cancelled by the cleanup.
C36_LoadingEnds ==
  (hookMounted /\ hookIsLoading) ~> (~hookIsLoading \/ ~hookMounted)

\* limits small enough to cut the histories the bounded calls build
SmallLimits == 1..(MaxCalls - 1)

\* C37 (Play-history shape): in every state the history holds at most one
\* entry per recording and at most 1000 entries, newest first (timestamps do
\* not increase along the list); the step in which a play call's decode
\* succeeds puts the recording's single entry first, stamped with the
\* current time, and keeps the others in their order; and the cut to the
\* first `limit` entries, tried with small limits on every history reached,
\* keeps the newest entries and drops the oldest.
C37_HistoryShape ==
  /\ [](/\ \A j, k \in DOMAIN playHistory :
             j # k => playHistory[j].recordingId # playHistory[k].recordingId
        /\ Len(playHistory) <= HISTORY_LIMIT
        /\ \A j, k \in DOMAIN playHistory :
             j < k => playHistory[j].timestamp >= playHistory[k].timestamp
        /\ \A id \in RecordingIds, limit \in SmallLimits :
             LET cut == AddHistoryUpTo(playHistory, id, limit)
                 whole == AddHistoryUpTo(playHistory, id, HISTORY_LIMIT)
             IN /\ Len(cut) <= limit
                /\ cut = SubSeq(whole, 1, Len(cut))
                /\ Len(cut) < Len(whole) => Len(cut) = limit)
  /\ [][\A i \in Calls : DecodeSucceeds(i) =>
          /\ playHistory'[1] = [recordingId |-> calls[i].recordingId, timestamp |-> now]
          /\ SubSeq(playHistory', 2, Len(playHistory')) =
               EntriesNotOf(playHistory, calls[i].recordingId)]_vars

\* A, then B, then A again were played on three different days: A's single
\* entry is first with the time of its second play, B's follows.
C37_Witness ==
  /\ calls[1].recordingId = "A" /\ calls[2].recordingId = "B"
  /\ calls[3].recordingId = "A" /\ calls[3].pc = "done"
  /\ playHistory = <<[recordingId |-> "A", timestamp |-> 2],
                     [recordingId |-> "B", timestamp |-> 1]>>

\* C38 (Window coverage): when windowSize = floor(len / targetPoints) is at
\* least 1, window i covers exactly the samples i*windowSize <= j <
\* (i+1)*windowSize, so the windows are disjoint and each starts where the one
\* before ends, every envelope entry is the RMS of exactly those samples, and
\* the samples from index windowSize*targetPoints on have no influence: the
\* handler posts the same messages whatever they are.
C38_WindowCoverage ==
  LET channelData == wRequest.channelData
      targetPoints == wRequest.targetPoints
      length == Len(channelData)
      windowSize == length \div targetPoints
      covered == windowSize * targetPoints
      window(i) == Window(length, targetPoints, i)
  IN (wRequest # NoRequest /\ windowSize >= 1) =>
       /\ \A i \in 0..(targetPoints - 1) :
            /\ window(i).start = i * windowSize
            /\ window(i).end = (i + 1) * windowSize
            /\ WindowRms(channelData, targetPoints)[i + 1] =
                 Sqrt(Quotient(SumSquares(channelData, i * windowSize,
                                          (i + 1) * windowSize), windowSize))
       /\ \A i, k \in 0..(targetPoints - 1) :
            i < k => window(i).end <= window(k).start
       /\ \A i \in 0..(targetPoints - 2) : window(i).end = window(i + 1).start
       /\ \A tail \in SeqsUpTo(Samples, length - covered) :
            Len(tail) = length - covered =>
              LET other == [channelData |-> SubSeq(channelData, 1, covered) \o tail,
                            targetPoints |-> targetPoints]
              IN /\ WindowRms(other.channelData, targetPoints) =
                      WindowRms(channelData, targetPoints)
                 /\ wHandled => wPosted = onmessage(other)

\* Three samples reduced to two points: windows [0,1) and [1,2), the third
\* sample (full scale) is left over and the envelope is that of the first two.
C38_Witness ==
  /\ wHandled
  /\ wRequest = [channelData |-> <<1, 1, 2>>, targetPoints |-> 2]
  /\ wPosted = <<Success(<<One, One>>)>>

\* ======================================================================
\* Part 8: recordings and their rhythms in the store
\* (src/unnamed/part_005: deleteRhythm, addRecordingToRhythm,
\* createRecording, deleteRecording)
\* ======================================================================
MaxStoreCalls == 3     \* calls of the three operations in one behaviour

StoreCalls == 1..MaxStoreCalls
\* the rhythms of the device
StoreRhythms == {"r1", "r2"}
\* uuidv4() of the k-th call
NewId(k) == k
\* a recording stored before the first call
OldId == NewId(0)
NoRhythm == "none"

\* the state outside the store
nonStoreVars == <<reducerVars, hookVars, editorVars, schedVars, ctxState, ctxTime,
                  calls, mounted, now, dbTags, importFile, importPc, importResult>>

\* db.rhythms.get(id): the rhythms found (none or one)
getRhythmById(id) == {rhythm \in dbRhythms : rhythm.id = id}

\* db.rhythms.update(id, {recordingIds}): the table afterwards; a key that
\* is not in the table changes nothing
updateRhythm(id, recordingIds) ==
  {IF rhythm.id = id THEN [rhythm EXCEPT !.recordingIds = recordingIds] ELSE rhythm :
     rhythm \in dbRhythms}

\* array.filter(rid => rid !== id)
Without(recordingIds, id) == SelectSeq(recordingIds, LAMBDA rid : rid # id)

StoreCall(op, rhythmId, recordingId, pc) ==
  [op |-> op, rhythmId |-> rhythmId, recordingId |-> recordingId, pc |-> pc,
   recordingIds |-> <<>>, found |-> {}]

\* Both rhythms exist; r1 has no recording or one.
InitStore ==
  /\ InitScheduler /\ ReducerIdle /\ InitHook /\ EditorIdle
  /\ dbTags = {} /\ importFile = NoFile /\ importPc = "idle" /\ importResult = "none"
  /\ \E old \in {<<>>, <<OldId>>} :
       /\ dbRhythms = {[id |-> "r1", recordingIds |-> old],
                       [id |-> "r2", recordingIds |-> <<>>]}
       /\ dbRecordings = {[id |-> old[k], rhythmId |-> "r1"] : k \in DOMAIN old}
  /\ storeCalls = <<>>

\* createRecording(recording): the recording gets its id and is added to the
\* table; the call goes on to addRecordingToRhythm
CreateRecording(rhythmId) ==
  /\ Len(storeCalls) < MaxStoreCalls
  /\ LET id == NewId(Len(storeCalls) + 1)
     IN /\ dbRecordings' = dbRecordings \cup {[id |-> id, rhythmId |-> rhythmId]}
        /\ storeCalls' = Append(storeCalls,
                                StoreCall("createRecording", rhythmId, id, "getRhythm"))
  /\ UNCHANGED <<dbRhythms, nonStoreVars>>

\* addRecordingToRhythm: getRhythmById answers
AddRecordingToRhythmGet(i) ==
  /\ storeCalls[i].op = "createRecording" /\ storeCalls[i].pc = "getRhythm"
  /\ LET found == getRhythmById(storeCalls[i].rhythmId)
     IN storeCalls' =
          IF found = {} THEN [storeCalls EXCEPT ![i].pc = "done"]
          ELSE [storeCalls EXCEPT ![i].pc = "update",
                  ![i].recordingIds = (CHOOSE rhythm \in found : TRUE).recordingIds]
  /\ UNCHANGED <<dbRhythms, dbRecordings, nonStoreVars>>

\* addRecordingToRhythm: the rhythm is updated with the list read, extended
AddRecordingToRhythmUpdate(i) ==
  /\ storeCalls[i].op = "createRecording" /\ storeCalls[i].pc = "update"
  /\ dbRhythms' = updateRhythm(storeCalls[i].rhythmId,
                               Append(storeCalls[i].recordingIds, storeCalls[i].recordingId))
  /\ storeCalls' = [storeCalls EXCEPT ![i].pc = "done"]
  /\ UNCHANGED <<dbRecordings, nonStoreVars>>

\* deleteRecording(id): getRecordingById answers
DeleteRecording(id) ==
  /\ Len(storeCalls) < MaxStoreCalls
  /\ LET found == {recording \in dbRecordings : recording.id = id}
     IN storeCalls' =
          Append(storeCalls,
                 IF found = {} THEN StoreCall("deleteRecording", NoRhythm, id, "delete")
                 ELSE StoreCall("deleteRecording",
                                (CHOOSE recording \in found : TRUE).rhythmId,
                                id, "getRhythm"))
  /\ UNCHANGED <<dbRhythms, dbRecordings, nonStoreVars>>

\* deleteRecording: getRhythmById answers
DeleteRecordingGetRhythm(i) ==
  /\ storeCalls[i].op = "deleteRecording" /\ storeCalls[i].pc = "getRhythm"
  /\ LET found == getRhythmById(storeCalls[i].rhythmId)
     IN storeCalls' =
          IF found = {} THEN [storeCalls EXCEPT ![i].pc = "delete"]
          ELSE [storeCalls EXCEPT ![i].pc = "update",
                  ![i].recordingIds = (CHOOSE rhythm \in found : TRUE).recordingIds]
  /\ UNCHANGED <<dbRhythms, dbRecordings, nonStoreVars>>

\* deleteRecording: the rhythm is updated with the list read, filtered
DeleteRecordingUpdate(i) ==
  /\ storeCalls[i].op = "deleteRecording" /\ storeCalls[i].pc = "update"
  /\ dbRhythms' = updateRhythm(storeCalls[i].rhythmId,
                               Without(storeCalls[i].recordingIds, storeCalls[i].recordingId))
  /\ storeCalls' = [storeCalls EXCEPT ![i].pc = "delete"]
  /\ UNCHANGED <<dbRecordings, nonStoreVars>>

\* deleteRecording: db.recordings.delete(id)
DeleteRecordingDelete(i) ==
  /\ storeCalls[i].op = "deleteRecording" /\ storeCalls[i].pc = "delete"
  /\ dbRecordings' = {recording \in dbRecordings : recording.id # storeCalls[i].recordingId}
  /\ storeCalls' = [storeCalls EXCEPT ![i].pc = "done"]
  /\ UNCHANGED <<dbRhythms, nonStoreVars>>

\* deleteRhythm(id): the query for the rhythm's recordings answers
DeleteRhythm(id) ==
  /\ Len(storeCalls) < MaxStoreCalls
  /\ storeCalls' =
       Append(storeCalls,
              [StoreCall("deleteRhythm", id, OldId, "bulkDelete") EXCEPT
                 !.found = {recording.id : recording \in
                              {r \in dbRecordings : r.rhythmId = id}}])
  /\ UNCHANGED <<dbRhythms, dbRecordings, nonStoreVars>>

\* deleteRhythm: db.recordings.bulkDelete of the recordings found
DeleteRhythmBulkDelete(i) ==
  /\ storeCalls[i].op = "deleteRhythm" /\ storeCalls[i].pc = "bulkDelete"
  /\ dbRecordings' = {recording \in dbRecordings : recording.id \notin storeCalls[i].found}
  /\ storeCalls' = [storeCalls EXCEPT ![i].pc = "delete"]
  /\ UNCHANGED <<dbRhythms, nonStoreVars>>

\* deleteRhythm: db.rhythms.delete(id)
DeleteRhythmDelete(i) ==
  /\ storeCalls[i].op = "deleteRhythm" /\ storeCalls[i].pc = "delete"
  /\ dbRhythms' = {rhythm \in dbRhythms : rhythm.id # storeCalls[i].rhythmId}
  /\ storeCalls' = [storeCalls EXCEPT ![i].pc = "done"]
  /\ UNCHANGED <<dbRecordings, nonStoreVars>>

\* the ids a caller can pass: of the recordings stored or created so far
KnownIds ==
  {recording.id : recording \in dbRecordings}
    \cup {storeCalls[i].recordingId :
            i \in {k \in DOMAIN storeCalls : storeCalls[k].op = "createRecording"}}

NextStore ==
  \/ \E rhythmId \in StoreRhythms : CreateRecording(rhythmId)
  \/ \E i \in DOMAIN storeCalls : AddRecordingToRhythmGet(i)
  \/ \E i \in DOMAIN storeCalls : AddRecordingToRhythmUpdate(i)
  \/ \E id \in KnownIds : DeleteRecording(id)
  \/ \E i \in DOMAIN storeCalls : DeleteRecordingGetRhythm(i)
  \/ \E i \in DOMAIN storeCalls : DeleteRecordingUpdate(i)
  \/ \E i \in DOMAIN storeCalls : DeleteRecordingDelete(i)
  \/ \E id \in StoreRhythms : DeleteRhythm(id)
  \/ \E i \in DOMAIN storeCalls : DeleteRhythmBulkDelete(i)
  \/ \E i \in DOMAIN storeCalls : DeleteRhythmDelete(i)

SpecStore == InitStore /\ [][NextStore]_vars

\* ----------------------------------------------------------------------
\* Properties of the store
StoreQuiet == \A i \in DOMAIN storeCalls : storeCalls[i].pc = "done"
\* the ids of the stored recordings of a rhythm
RecordingsOf(rhythmId) ==
  {recording.id : recording \in {r \in dbRecordings : r.rhythmId = rhythmId}}
\* the rhythm's list names exactly its stored recordings
Linked(rhythm) ==
  {rhythm.recordingIds[k] : k \in DOMAIN rhythm.recordingIds} = RecordingsOf(rhythm.id)

\* C39 (Recording/rhythm link integrity): when every call of createRecording,
\* deleteRecording and deleteRhythm made so far has returned, calls whose
\* awaits interleaved included, the recordingIds of each stored rhythm are
\* exactly the ids of the stored recordings whose rhythmId is that rhythm.
C39_LinkIntegrity ==
  StoreQuiet => \A rhythm \in dbRhythms : Linked(rhythm)

====
